---- MODULE Spec2Model ----
(***************************************************************************)
(* Model of the reasoned multi-step research orchestrator                  *)
(* (createReasonSearch.execute, src/lib/ai/tools/reason-search.ts).        *)
(*                                                                         *)
(* One run is a single async function: every action below is the code     *)
(* between two awaits (or one turn of one of its loops).  External calls   *)
(* (generateObject, webSearchStep, academicSearchStep, xSearchStep) are    *)
(* issued by a *Call action and answered by a *Return / *Fail action; the  *)
(* answer is the nondeterministic input of the run.                        *)
(***************************************************************************)
EXTENDS Integers, Sequences, FiniteSets, TLC

VARIABLES
    pc,              \* position of the run inside execute
    depth,           \* parameter depth: "basic" | "advanced"
    researchPlan,    \* object returned by the plan generation call
    stepIds,         \* generateStepIds(researchPlan)
    completedSteps,  \* let completedSteps
    totalSteps,      \* const totalSteps
    searchResults,   \* const searchResults = []
    searchIndex,     \* let searchIndex
    stepPos,         \* position of `for (const step of stepIds.searchSteps)`
    analysisPos,     \* position of `for (const step of stepIds.analysisSteps)`
    gapAnalysis,     \* object returned by the gap analysis call
    additionalQueries, \* const additionalQueries (Deepening Pass)
    gapPos,          \* position of `for (const query of additionalQueries)`
    gapPhase,        \* which of the three source blocks of the loop body is awaited
    gapSearchId,     \* const gapSearchId of the current loop turn
    synthesis,       \* let synthesis
    returned,        \* <<>> or <<payload>>: the value execute returned
    annotations,     \* dataStream.writeMessageAnnotation calls of the orchestrator, in order
    calls,           \* external calls issued so far, in order
    inflight,        \* number of external calls issued and not yet answered
    outcomes,        \* initial pass: error flag of each answered adapter call
    gapFailed,       \* Deepening Pass: some adapter call was answered with an error
    genFailed,       \* a generation call has thrown
    limitations,     \* gapAnalysis.limitations: the severity of each limitation
    findings,        \* findings of the gap-analysis completed annotation
    candidate,       \* object the model produced for the research plan schema
    verdict,         \* outcome of the schema validation inside generateObject
    planTotal,       \* totalSteps computed from the candidate when it is accepted
    xPass,           \* pass whose x block handles the adapter answer
    xItems,          \* xSearchStep answer: the results array
    xEntry,          \* <<>> or <<entry>>: what the x block pushed to searchResults
    mrPlan,          \* search_queries of a plan, each with source and priority
    mrPos,           \* position of the initial search loop over its steps
    mrCalls,         \* adapter and maxResults of each initial-pass call issued
    docKind,         \* createDocument: parameter kind
    docHandlers,     \* kinds of documentHandlersByArtifactKind
    docPc,           \* position inside createDocument
    docStream,       \* dataStream.writeData calls, in order
    rtPc,            \* position inside retrieve.execute
    rtScrape,        \* <<>> or <<content>>: answer of app.scrapeUrl
    rtExtract,       \* <<>> or <<extractResult>>: answer of app.extract
    rtCalls,         \* Firecrawl calls made, in order
    rtResult,        \* <<>> or <<value>>: what execute returned
    dlgPc,           \* position inside handleApiKeySubmit
    loading,         \* state loading of ApiKeyDialog
    responses,       \* outcome of each POST to /api/keys so far
    callbacks        \* calls of the props onClose and onSuccess, in order

runVars == <<pc, depth, researchPlan, stepIds, completedSteps, totalSteps,
          searchResults, searchIndex, stepPos, analysisPos, gapAnalysis,
          additionalQueries, gapPos, gapPhase, gapSearchId, synthesis,
          returned, annotations, calls, inflight, outcomes, gapFailed,
          genFailed>>

findingsVars == <<limitations, findings>>
schemaVars == <<candidate, verdict, planTotal>>
tweetVars == <<xPass, xItems, xEntry>>
maxVars == <<mrPlan, mrPos, mrCalls>>
docVars == <<docKind, docHandlers, docPc, docStream>>
retrieveVars == <<rtPc, rtScrape, rtExtract, rtCalls, rtResult>>
dialogVars == <<dlgPc, loading, responses, callbacks>>

vars == <<runVars, findingsVars, schemaVars, tweetVars, maxVars, docVars,
          retrieveVars, dialogVars>>

(***************************************************************************)
(* Bounds of the explored inputs.                                          *)
(***************************************************************************)
MaxQueries == 1
MaxAnalyses == 2
MaxGaps == 2
MaxAddQ == 3
MaxWork == 11

Absent == -1
Null == "null"

Depths == {"basic", "advanced"}
Sources == {"web", "academic", "x", "all"}

SeqsUpTo(S, n) == UNION {[1..k -> S] : k \in 0..n}

RECURSIVE Flatten(_)
\* Array.prototype.flatMap is a map to arrays followed by this flattening.
Flatten(ss) == IF ss = <<>> THEN <<>> ELSE Head(ss) \o Flatten(Tail(ss))

(***************************************************************************)
(* Annotations and calls.                                                  *)
(***************************************************************************)
Annotation(id, type, status, overwrite, completed, total, isComplete) ==
    [id |-> id, type |-> type, status |-> status, overwrite |-> overwrite,
     completedSteps |-> completed, totalSteps |-> total,
     isComplete |-> isComplete]

\* kind: the function called; stage: the stage of the run that calls it;
\* stepId: the stepId argument (adapters) or the annotation id of the step;
\* q: the query the call is made for; evidence: the number of searchResults
\* entries serialized into a generation prompt.
Call(kind, stage, stepId, q, evidence) ==
    [kind |-> kind, stage |-> stage, stepId |-> stepId, q |-> q,
     evidence |-> evidence]

(***************************************************************************)
(* generateStepIds                                                         *)
(***************************************************************************)
\* Variant: the fan-out of 'all' misses the x step.
SearchStepsOf_NoX(source, index) ==
    IF source = "all"
    THEN << [id |-> "search-web-" \o ToString(index), type |-> "web", query |-> index],
            [id |-> "search-academic-" \o ToString(index), type |-> "academic", query |-> index] >>
    ELSE IF source = "x"
    THEN << [id |-> "search-x-" \o ToString(index), type |-> "x", query |-> index] >>
    ELSE LET searchType == IF source = "academic" THEN "academic" ELSE "web"
         IN << [id |-> "search-" \o searchType \o "-" \o ToString(index),
                type |-> searchType, query |-> index] >>

\* Variant: the fan-out of 'all' lists the academic step before the web step.
SearchStepsOf_AcademicFirst(source, index) ==
    IF source = "all"
    THEN << [id |-> "search-academic-" \o ToString(index), type |-> "academic", query |-> index],
            [id |-> "search-web-" \o ToString(index), type |-> "web", query |-> index],
            [id |-> "search-x-" \o ToString(index), type |-> "x", query |-> index] >>
    ELSE IF source = "x"
    THEN << [id |-> "search-x-" \o ToString(index), type |-> "x", query |-> index] >>
    ELSE LET searchType == IF source = "academic" THEN "academic" ELSE "web"
         IN << [id |-> "search-" \o searchType \o "-" \o ToString(index),
                type |-> searchType, query |-> index] >>

SearchStepsOf(source, index) ==
    IF source = "all"
    THEN << [id |-> "search-web-" \o ToString(index), type |-> "web", query |-> index],
            [id |-> "search-academic-" \o ToString(index), type |-> "academic", query |-> index],
            [id |-> "search-x-" \o ToString(index), type |-> "x", query |-> index] >>
    ELSE IF source = "x"
    THEN << [id |-> "search-x-" \o ToString(index), type |-> "x", query |-> index] >>
    ELSE LET searchType == IF source = "academic" THEN "academic" ELSE "web"
         IN << [id |-> "search-" \o searchType \o "-" \o ToString(index),
                type |-> searchType, query |-> index] >>

AnalysisStepOf(analysis, index) ==
    [id |-> "analysis-" \o ToString(index), type |-> "analysis",
     analysis |-> analysis]

generateStepIds(plan) ==
    [planId |-> "research-plan",
     searchSteps |->
         Flatten([i \in 1..Len(plan.search_queries) |->
                     SearchStepsOf(plan.search_queries[i], i - 1)]),
     analysisSteps |->
         [i \in 1..Len(plan.required_analyses) |->
             AnalysisStepOf(plan.required_analyses[i], i - 1)]]

\* stepIds.searchSteps.length + stepIds.analysisSteps.length
TotalStepsOf(ids) == Len(ids.searchSteps) + Len(ids.analysisSteps)

NoPlan == [search_queries |-> <<>>, required_analyses |-> <<>>]
NoGapAnalysis == [knowledge_gaps |-> <<>>]

\* Variant: the slots reserved for gap analysis and synthesis are forgotten.
ReportedTotal_NoReserve == totalSteps

\* Variant: two slots are reserved whatever the depth.
ReportedTotal_AlwaysTwo == totalSteps + 2

\* totalSteps + (depth === 'advanced' ? 2 : 1)
ReportedTotal == totalSteps + (IF depth = "advanced" THEN 2 ELSE 1)

RunInit ==
    /\ pc = "start"
    /\ depth \in Depths
    /\ researchPlan = NoPlan
    /\ stepIds = generateStepIds(NoPlan)
    /\ completedSteps = 0
    /\ totalSteps = 0
    /\ searchResults = <<>>
    /\ searchIndex = 0
    /\ stepPos = 1
    /\ analysisPos = 1
    /\ gapAnalysis = NoGapAnalysis
    /\ additionalQueries = <<>>
    /\ gapPos = 1
    /\ gapPhase = "none"
    /\ gapSearchId = ""
    /\ synthesis = Null
    /\ returned = <<>>
    /\ annotations = <<>>
    /\ calls = <<>>
    /\ inflight = 0
    /\ outcomes = <<>>
    /\ gapFailed = FALSE
    /\ genFailed = FALSE

\* The parts of the program modelled on their own are not exercised by a run.
FindingsIdle == limitations = <<>> /\ findings = <<>>
SchemaIdle == candidate = NoPlan /\ verdict = "none" /\ planTotal = Absent
TweetsIdle == xPass = "none" /\ xItems = <<>> /\ xEntry = <<>>

MaxResultsIdle == mrPlan = <<>> /\ mrPos = 1 /\ mrCalls = <<>>
DocumentIdle ==
    docKind = "none" /\ docHandlers = {} /\ docPc = "idle" /\ docStream = <<>>
RetrieveIdle ==
    /\ rtPc = "idle"
    /\ rtScrape = <<>>
    /\ rtExtract = <<>>
    /\ rtCalls = <<>>
    /\ rtResult = <<>>
DialogIdle ==
    dlgPc = "idle" /\ loading = FALSE /\ responses = <<>> /\ callbacks = <<>>
ToolsIdle == MaxResultsIdle /\ DocumentIdle /\ RetrieveIdle /\ DialogIdle

Init == RunInit /\ FindingsIdle /\ SchemaIdle /\ TweetsIdle /\ ToolsIdle

(***************************************************************************)
(* Answers the external collaborators may give.                            *)
(***************************************************************************)
Plans ==
    {[search_queries |-> qs, required_analyses |-> as] :
        qs \in SeqsUpTo(Sources, MaxQueries),
        as \in {[i \in 1..n |-> "analysis"] : n \in 0..MaxAnalyses}}

Gaps == {[additional_queries |-> [i \in 1..k |-> "query"]] : k \in 0..MaxAddQ}

GapAnalyses == {[knowledge_gaps |-> gs] : gs \in SeqsUpTo(Gaps, MaxGaps)}

(***************************************************************************)
(* Plan Generator                                                          *)
(***************************************************************************)
\* Variant: the plan is requested without announcing it.
StartRun_NoRunning ==
    /\ pc = "start"
    /\ calls' = Append(calls, Call("generateObject", "plan", "research-plan", Absent, Absent))
    /\ inflight' = inflight + 1
    /\ pc' = "plan_wait"
    /\ UNCHANGED <<depth, researchPlan, stepIds, completedSteps, totalSteps,
                   searchResults, searchIndex, stepPos, analysisPos,
                   gapAnalysis, additionalQueries, gapPos, gapPhase,
                   gapSearchId, synthesis, returned, annotations, outcomes,
                   gapFailed, genFailed>>
    /\ UNCHANGED <<findingsVars, schemaVars, tweetVars, maxVars, docVars,
                 retrieveVars, dialogVars>>

StartRun ==
    /\ pc = "start"
    /\ annotations' = Append(annotations,
            Annotation("research-plan-initial", "plan", "running", TRUE,
                       Absent, Absent, FALSE))
    /\ calls' = Append(calls, Call("generateObject", "plan", "research-plan", Absent, Absent))
    /\ inflight' = inflight + 1
    /\ pc' = "plan_wait"
    /\ UNCHANGED <<depth, researchPlan, stepIds, completedSteps, totalSteps,
                   searchResults, searchIndex, stepPos, analysisPos,
                   gapAnalysis, additionalQueries, gapPos, gapPhase,
                   gapSearchId, synthesis, returned, outcomes, gapFailed,
                   genFailed>>
    /\ UNCHANGED <<findingsVars, schemaVars, tweetVars, maxVars, docVars,
                 retrieveVars, dialogVars>>

PlanReturn ==
    /\ pc = "plan_wait"
    /\ \E plan \in Plans :
        LET ids == generateStepIds(plan)
            total == TotalStepsOf(ids)
        IN /\ researchPlan' = plan
           /\ stepIds' = ids
           /\ completedSteps' = 0
           /\ totalSteps' = total
           /\ annotations' = Append(annotations,
                  Annotation(ids.planId, "plan", "completed", TRUE,
                             Absent, total, FALSE) @@ [plan |-> plan])
    /\ inflight' = inflight - 1
    /\ searchResults' = <<>>
    /\ searchIndex' = 0
    /\ stepPos' = 1
    /\ pc' = "search"
    /\ UNCHANGED <<depth, analysisPos, gapAnalysis, additionalQueries, gapPos,
                   gapPhase, gapSearchId, synthesis, returned, calls,
                   outcomes, gapFailed, genFailed>>
    /\ UNCHANGED <<findingsVars, schemaVars, tweetVars, maxVars, docVars,
                 retrieveVars, dialogVars>>

\* Variant: the rejection is caught and the run falls through to its end.
Throw_Caught ==
    /\ genFailed' = TRUE
    /\ inflight' = inflight - 1
    /\ pc' = "final"
    /\ UNCHANGED <<depth, researchPlan, stepIds, completedSteps, totalSteps,
                   searchResults, searchIndex, stepPos, analysisPos,
                   gapAnalysis, additionalQueries, gapPos, gapPhase,
                   gapSearchId, synthesis, returned, annotations, calls,
                   outcomes, gapFailed>>
    /\ UNCHANGED <<findingsVars, schemaVars, tweetVars, maxVars, docVars,
                 retrieveVars, dialogVars>>

\* A rejected await of generateObject: nothing in execute catches it.
\* Variant: the failure is reported to the client as the end of the run.
Throw_ReportsComplete ==
    /\ genFailed' = TRUE
    /\ inflight' = inflight - 1
    /\ pc' = "aborted"
    /\ annotations' = Append(annotations,
           Annotation("research-progress", "progress", "completed", TRUE,
                      ReportedTotal, ReportedTotal, TRUE))
    /\ UNCHANGED <<depth, researchPlan, stepIds, completedSteps, totalSteps,
                   searchResults, searchIndex, stepPos, analysisPos,
                   gapAnalysis, additionalQueries, gapPos, gapPhase,
                   gapSearchId, synthesis, returned, calls,
                   outcomes, gapFailed>>
    /\ UNCHANGED <<findingsVars, schemaVars, tweetVars, maxVars, docVars,
                 retrieveVars, dialogVars>>

Throw ==
    /\ genFailed' = TRUE
    /\ inflight' = inflight - 1
    /\ pc' = "aborted"
    /\ UNCHANGED <<depth, researchPlan, stepIds, completedSteps, totalSteps,
                   searchResults, searchIndex, stepPos, analysisPos,
                   gapAnalysis, additionalQueries, gapPos, gapPhase,
                   gapSearchId, synthesis, returned, annotations, calls,
                   outcomes, gapFailed>>
    /\ UNCHANGED <<findingsVars, schemaVars, tweetVars, maxVars, docVars,
                 retrieveVars, dialogVars>>

PlanFail ==
    /\ pc = "plan_wait"
    /\ Throw

(***************************************************************************)
(* Step Scheduler: initial search pass                                     *)
(***************************************************************************)
AdapterOf(type) ==
    CASE type = "web" -> "webSearchStep"
      [] type = "academic" -> "academicSearchStep"
      [] type = "x" -> "xSearchStep"

\* Variant: the adapter call is not awaited and the loop moves on.
SearchCall_NotAwaited ==
    /\ pc = "search"
    /\ stepPos <= Len(stepIds.searchSteps)
    /\ LET step == stepIds.searchSteps[stepPos]
       IN calls' = Append(calls,
              Call(AdapterOf(step.type), "search", step.id, step.query, Absent))
    /\ inflight' = inflight + 1
    /\ stepPos' = stepPos + 1
    /\ searchIndex' = searchIndex + 1
    /\ UNCHANGED <<pc, depth, researchPlan, stepIds, completedSteps,
                   totalSteps, searchResults, analysisPos, gapAnalysis,
                   additionalQueries, gapPos, gapPhase, gapSearchId,
                   synthesis, returned, annotations, outcomes, gapFailed,
                   genFailed>>
    /\ UNCHANGED <<findingsVars, schemaVars, tweetVars, maxVars, docVars,
                 retrieveVars, dialogVars>>

SearchCall ==
    /\ pc = "search"
    /\ stepPos <= Len(stepIds.searchSteps)
    /\ LET step == stepIds.searchSteps[stepPos]
       IN calls' = Append(calls,
              Call(AdapterOf(step.type), "search", step.id, step.query, Absent))
    /\ inflight' = inflight + 1
    /\ pc' = "search_wait"
    /\ UNCHANGED <<depth, researchPlan, stepIds, completedSteps, totalSteps,
                   searchResults, searchIndex, stepPos, analysisPos,
                   gapAnalysis, additionalQueries, gapPos, gapPhase,
                   gapSearchId, synthesis, returned, annotations, outcomes,
                   gapFailed, genFailed>>
    /\ UNCHANGED <<findingsVars, schemaVars, tweetVars, maxVars, docVars,
                 retrieveVars, dialogVars>>

\* Variant: the step is counted as completed outside the error check.
RecordSearch_CountsFailures(step, error) ==
    /\ searchResults' = IF ~error
                        THEN Append(searchResults,
                                 [type |-> step.type, origin |-> "plan",
                                  query |-> step.query])
                        ELSE searchResults
    /\ completedSteps' = completedSteps + 1

\* if (!searchResult.error) { searchResults.push(...); completedSteps++; }
RecordSearch(step, error) ==
    IF ~error
    THEN /\ searchResults' = Append(searchResults,
                [type |-> step.type, origin |-> "plan", query |-> step.query])
         /\ completedSteps' = completedSteps + 1
    ELSE /\ searchResults' = searchResults
         /\ completedSteps' = completedSteps

\* Variant: a step whose adapter reports an error is run again.
SearchReturn_RetriesFailed ==
    /\ pc = "search_wait"
    /\ \E error \in BOOLEAN :
        /\ RecordSearch(stepIds.searchSteps[stepPos], error)
        /\ outcomes' = outcomes
        /\ stepPos' = IF error THEN stepPos ELSE stepPos + 1
    /\ inflight' = inflight - 1
    /\ searchIndex' = searchIndex + 1
    /\ pc' = "search"
    /\ UNCHANGED <<depth, researchPlan, stepIds, totalSteps, analysisPos,
                   gapAnalysis, additionalQueries, gapPos, gapPhase,
                   gapSearchId, synthesis, returned, annotations, calls,
                   gapFailed, genFailed>>
    /\ UNCHANGED <<findingsVars, schemaVars, tweetVars, maxVars, docVars,
                 retrieveVars, dialogVars>>

SearchReturn ==
    /\ pc = "search_wait"
    /\ \E error \in BOOLEAN :
        /\ RecordSearch(stepIds.searchSteps[stepPos], error)
        /\ outcomes' = Append(outcomes, error)
    /\ inflight' = inflight - 1
    /\ searchIndex' = searchIndex + 1
    /\ stepPos' = stepPos + 1
    /\ pc' = "search"
    /\ UNCHANGED <<depth, researchPlan, stepIds, totalSteps, analysisPos,
                   gapAnalysis, additionalQueries, gapPos, gapPhase,
                   gapSearchId, synthesis, returned, annotations, calls,
                   gapFailed, genFailed>>
    /\ UNCHANGED <<findingsVars, schemaVars, tweetVars, maxVars, docVars,
                 retrieveVars, dialogVars>>

SearchDone ==
    /\ pc = "search"
    /\ stepPos > Len(stepIds.searchSteps)
    /\ analysisPos' = 1
    /\ pc' = "analysis"
    /\ UNCHANGED <<depth, researchPlan, stepIds, completedSteps, totalSteps,
                   searchResults, searchIndex, stepPos, gapAnalysis,
                   additionalQueries, gapPos, gapPhase, gapSearchId,
                   synthesis, returned, annotations, calls, inflight,
                   outcomes, gapFailed, genFailed>>
    /\ UNCHANGED <<findingsVars, schemaVars, tweetVars, maxVars, docVars,
                 retrieveVars, dialogVars>>

(***************************************************************************)
(* Analysis Engine                                                         *)
(***************************************************************************)
\* Variant: the analyses are skipped when there is no evidence.
AnalysisCall_SkipsEmpty ==
    /\ pc = "analysis"
    /\ analysisPos <= Len(stepIds.analysisSteps)
    /\ IF Len(searchResults) = 0
       THEN /\ analysisPos' = Len(stepIds.analysisSteps) + 1
            /\ UNCHANGED <<annotations, calls, inflight, pc>>
       ELSE /\ LET step == stepIds.analysisSteps[analysisPos]
               IN /\ annotations' = Append(annotations,
                         Annotation(step.id, "analysis", "running", FALSE,
                                    Absent, Absent, FALSE))
                  /\ calls' = Append(calls,
                         Call("generateObject", "analysis", step.id, Absent,
                              Len(searchResults)))
            /\ inflight' = inflight + 1
            /\ pc' = "analysis_wait"
            /\ UNCHANGED analysisPos
    /\ UNCHANGED <<depth, researchPlan, stepIds, completedSteps, totalSteps,
                   searchResults, searchIndex, stepPos,
                   gapAnalysis, additionalQueries, gapPos, gapPhase,
                   gapSearchId, synthesis, returned, outcomes, gapFailed,
                   genFailed>>
    /\ UNCHANGED <<findingsVars, schemaVars, tweetVars, maxVars, docVars,
                 retrieveVars, dialogVars>>

AnalysisCall ==
    /\ pc = "analysis"
    /\ analysisPos <= Len(stepIds.analysisSteps)
    /\ LET step == stepIds.analysisSteps[analysisPos]
       IN /\ annotations' = Append(annotations,
                 Annotation(step.id, "analysis", "running", FALSE,
                            Absent, Absent, FALSE))
          /\ calls' = Append(calls,
                 Call("generateObject", "analysis", step.id, Absent,
                      Len(searchResults)))
    /\ inflight' = inflight + 1
    /\ pc' = "analysis_wait"
    /\ UNCHANGED <<depth, researchPlan, stepIds, completedSteps, totalSteps,
                   searchResults, searchIndex, stepPos, analysisPos,
                   gapAnalysis, additionalQueries, gapPos, gapPhase,
                   gapSearchId, synthesis, returned, outcomes, gapFailed,
                   genFailed>>
    /\ UNCHANGED <<findingsVars, schemaVars, tweetVars, maxVars, docVars,
                 retrieveVars, dialogVars>>

\* Variant: a progress update is written before the completed annotation.
AnalysisReturn_ProgressFirst ==
    /\ pc = "analysis_wait"
    /\ LET step == stepIds.analysisSteps[analysisPos]
       IN annotations' = annotations \o
              << Annotation("research-progress", "progress", "running", TRUE,
                            completedSteps, totalSteps, FALSE),
                 Annotation(step.id, "analysis", "completed", TRUE,
                            Absent, Absent, FALSE) >>
    /\ inflight' = inflight - 1
    /\ analysisPos' = analysisPos + 1
    /\ pc' = "analysis"
    /\ UNCHANGED <<depth, researchPlan, stepIds, completedSteps, totalSteps,
                   searchResults, searchIndex, stepPos, gapAnalysis,
                   additionalQueries, gapPos, gapPhase, gapSearchId,
                   synthesis, returned, calls, outcomes, gapFailed,
                   genFailed>>
    /\ UNCHANGED <<findingsVars, schemaVars, tweetVars, maxVars, docVars,
                 retrieveVars, dialogVars>>

\* Variant: the completed annotation is written without the overwrite flag.
AnalysisReturn_NoOverwrite ==
    /\ pc = "analysis_wait"
    /\ LET step == stepIds.analysisSteps[analysisPos]
       IN annotations' = Append(annotations,
              Annotation(step.id, "analysis", "completed", FALSE,
                         Absent, Absent, FALSE))
    /\ inflight' = inflight - 1
    /\ analysisPos' = analysisPos + 1
    /\ pc' = "analysis"
    /\ UNCHANGED <<depth, researchPlan, stepIds, completedSteps, totalSteps,
                   searchResults, searchIndex, stepPos, gapAnalysis,
                   additionalQueries, gapPos, gapPhase, gapSearchId,
                   synthesis, returned, calls, outcomes, gapFailed,
                   genFailed>>
    /\ UNCHANGED <<findingsVars, schemaVars, tweetVars, maxVars, docVars,
                 retrieveVars, dialogVars>>

\* Variant: a finished analysis is counted as a completed step.
AnalysisReturn_CountsStep ==
    /\ pc = "analysis_wait"
    /\ LET step == stepIds.analysisSteps[analysisPos]
       IN annotations' = Append(annotations,
              Annotation(step.id, "analysis", "completed", TRUE,
                         Absent, Absent, FALSE))
    /\ completedSteps' = completedSteps + 1
    /\ inflight' = inflight - 1
    /\ analysisPos' = analysisPos + 1
    /\ pc' = "analysis"
    /\ UNCHANGED <<depth, researchPlan, stepIds, totalSteps,
                   searchResults, searchIndex, stepPos, gapAnalysis,
                   additionalQueries, gapPos, gapPhase, gapSearchId,
                   synthesis, returned, calls, outcomes, gapFailed,
                   genFailed>>
    /\ UNCHANGED <<findingsVars, schemaVars, tweetVars, maxVars, docVars,
                 retrieveVars, dialogVars>>

AnalysisReturn ==
    /\ pc = "analysis_wait"
    /\ LET step == stepIds.analysisSteps[analysisPos]
       IN annotations' = Append(annotations,
              Annotation(step.id, "analysis", "completed", TRUE,
                         Absent, Absent, FALSE))
    /\ inflight' = inflight - 1
    /\ analysisPos' = analysisPos + 1
    /\ pc' = "analysis"
    /\ UNCHANGED <<depth, researchPlan, stepIds, completedSteps, totalSteps,
                   searchResults, searchIndex, stepPos, gapAnalysis,
                   additionalQueries, gapPos, gapPhase, gapSearchId,
                   synthesis, returned, calls, outcomes, gapFailed,
                   genFailed>>
    /\ UNCHANGED <<findingsVars, schemaVars, tweetVars, maxVars, docVars,
                 retrieveVars, dialogVars>>

AnalysisFail ==
    /\ pc = "analysis_wait"
    /\ Throw

(***************************************************************************)
(* Gap Analyzer                                                            *)
(***************************************************************************)
GapAnalysisCall ==
    /\ pc = "analysis"
    /\ analysisPos > Len(stepIds.analysisSteps)
    /\ annotations' = Append(annotations,
           Annotation("gap-analysis", "analysis", "running", FALSE,
                      Absent, Absent, FALSE))
    /\ calls' = Append(calls,
           Call("generateObject", "gap-analysis", "gap-analysis", Absent,
                Len(searchResults)))
    /\ inflight' = inflight + 1
    /\ pc' = "gap_wait"
    /\ UNCHANGED <<depth, researchPlan, stepIds, completedSteps, totalSteps,
                   searchResults, searchIndex, stepPos, analysisPos,
                   gapAnalysis, additionalQueries, gapPos, gapPhase,
                   gapSearchId, synthesis, returned, outcomes, gapFailed,
                   genFailed>>
    /\ UNCHANGED <<findingsVars, schemaVars, tweetVars, maxVars, docVars,
                 retrieveVars, dialogVars>>

sourceTypes == <<"web", "academic", "x", "all">>

\* Variant: the rotation is taken from the query after the 'all' one.
SourceOfQuery_RotatesFromWeb(idx) ==
    IF idx = 0
    THEN "all"
    ELSE sourceTypes[((idx - 1) % (Len(sourceTypes) - 1)) + 1]

\* The source given to the additional query at zero-based index idx of a gap.
SourceOfQuery(idx) ==
    IF idx = 0
    THEN "all"
    ELSE sourceTypes[(idx % (Len(sourceTypes) - 1)) + 1]

\* gapAnalysis.knowledge_gaps.flatMap((gap) => gap.additional_queries.map(...));
\* the pair <<gap, idx>> stands for the query string and its rationale.
QueriesOfGap(gap, g) ==
    [j \in 1..Len(gap.additional_queries) |->
        [query |-> <<g, j - 1>>, source |-> SourceOfQuery(j - 1),
         priority |-> 3]]

AdditionalQueriesOf(analysis) ==
    Flatten([g \in 1..Len(analysis.knowledge_gaps) |->
                QueriesOfGap(analysis.knowledge_gaps[g], g - 1)])

\* Variant: the depth is not consulted.
Deepens_IgnoresDepth(d, analysis) == Len(analysis.knowledge_gaps) > 0

\* Variant: the pass is entered only when there is a query to run.
Deepens_NeedsQueries(d, analysis) ==
    /\ d = "advanced"
    /\ \E g \in DOMAIN analysis.knowledge_gaps :
           Len(analysis.knowledge_gaps[g].additional_queries) > 0

\* if (depth === 'advanced' && gapAnalysis.knowledge_gaps.length > 0)
Deepens(d, analysis) == d = "advanced" /\ Len(analysis.knowledge_gaps) > 0

\* Adapter calls one additional query causes.
CallsOfQuery(query) == IF query.source = "all" THEN 3 ELSE 1

RECURSIVE GapCallCount(_)
GapCallCount(qs) ==
    IF qs = <<>> THEN 0 ELSE CallsOfQuery(Head(qs)) + GapCallCount(Tail(qs))

\* Variant: the analyses that ran are counted as completed steps.
GapAnalysisReturn_CountsAnalyses ==
    /\ pc = "gap_wait"
    /\ \E analysis \in GapAnalyses :
        /\ totalSteps + GapCallCount(AdditionalQueriesOf(analysis)) <= MaxWork
        /\ gapAnalysis' = analysis
        /\ IF Deepens(depth, analysis)
           THEN /\ additionalQueries' = AdditionalQueriesOf(analysis)
                /\ pc' = "gap_search"
           ELSE /\ additionalQueries' = <<>>
                /\ pc' = "final"
    /\ annotations' = Append(annotations,
           Annotation("gap-analysis", "analysis", "completed", TRUE,
                      completedSteps + Len(stepIds.analysisSteps) + 1,
                      ReportedTotal, FALSE))
    /\ synthesis' = Null
    /\ gapPos' = 1
    /\ inflight' = inflight - 1
    /\ UNCHANGED <<depth, researchPlan, stepIds, completedSteps, totalSteps,
                   searchResults, searchIndex, stepPos, analysisPos,
                   gapPhase, gapSearchId, returned, calls, outcomes,
                   gapFailed, genFailed>>
    /\ UNCHANGED <<findingsVars, schemaVars, tweetVars, maxVars, docVars,
                 retrieveVars, dialogVars>>

GapAnalysisReturn ==
    /\ pc = "gap_wait"
    /\ \E analysis \in GapAnalyses :
        /\ totalSteps + GapCallCount(AdditionalQueriesOf(analysis)) <= MaxWork
        /\ gapAnalysis' = analysis
        /\ IF Deepens(depth, analysis)
           THEN /\ additionalQueries' = AdditionalQueriesOf(analysis)
                /\ pc' = "gap_search"
           ELSE /\ additionalQueries' = <<>>
                /\ pc' = "final"
    /\ annotations' = Append(annotations,
           Annotation("gap-analysis", "analysis", "completed", TRUE,
                      completedSteps + 1, ReportedTotal, FALSE))
    /\ synthesis' = Null
    /\ gapPos' = 1
    /\ inflight' = inflight - 1
    /\ UNCHANGED <<depth, researchPlan, stepIds, completedSteps, totalSteps,
                   searchResults, searchIndex, stepPos, analysisPos,
                   gapPhase, gapSearchId, returned, calls, outcomes,
                   gapFailed, genFailed>>
    /\ UNCHANGED <<findingsVars, schemaVars, tweetVars, maxVars, docVars,
                 retrieveVars, dialogVars>>

GapAnalysisFail ==
    /\ pc = "gap_wait"
    /\ Throw

(***************************************************************************)
(* Deepening Pass                                                          *)
(***************************************************************************)
\* results pushed after a gap search: a fresh query object per source block.
GapResult(type, query) ==
    [type |-> type, origin |-> "gap", query |-> query.query]

\* The loop body has three source blocks, entered in this order.
BlockTypes == <<"web", "academic", "x">>

\* Variant: the x block is entered for x queries only.
EntersBlock_XOnlyForX(source, type) ==
    source = type \/ (source = "all" /\ type # "x")

\* if (query.source === '<type>' || query.source === 'all')
EntersBlock(source, type) == source = type \/ source = "all"

\* The first block the query enters after block number `after` (0: from the
\* top of the loop body); 0 when the loop body ends.
NextBlock(source, after) ==
    LET later == {b \in (after + 1)..Len(BlockTypes) :
                     EntersBlock(source, BlockTypes[b])}
    IN IF later = {} THEN 0 ELSE CHOOSE b \in later : \A c \in later : b <= c

BlockNumber(type) == CHOOSE b \in 1..Len(BlockTypes) : BlockTypes[b] = type

\* The stepId a block passes to its adapter and the searchIndex it leaves,
\* for gapSearchId = id and searchIndex = si on entering the block.
\*   web:      'all' ? `gap-search-web-${searchIndex - 3}` : gapSearchId
\*   academic: 'all' ? `gap-search-academic-${searchIndex++}` : gapSearchId
\*   x:        'all' ? `gap-search-x-${searchIndex++}` : gapSearchId
Block(type, source, id, si) ==
    [type |-> type,
     stepId |-> IF source # "all" THEN id
                ELSE IF type = "web"
                THEN "gap-search-web-" \o ToString(si - 3)
                ELSE "gap-search-" \o type \o "-" \o ToString(si),
     gapSearchId |-> id,
     searchIndex |-> IF source = "all" /\ type # "web" THEN si + 1 ELSE si]

\* Top of the loop body, const gapSearchId = `gap-search-${searchIndex++}`,
\* and the first block the query enters.
\* Variant: gapSearchId is built without advancing searchIndex.
FirstBlock_NoIncrement(query, si) ==
    Block(BlockTypes[NextBlock(query.source, 0)], query.source,
          "gap-search-" \o ToString(si), si)

FirstBlock(query, si) ==
    Block(BlockTypes[NextBlock(query.source, 0)], query.source,
          "gap-search-" \o ToString(si), si + 1)

\* A later block of the same loop turn.
SiblingBlock(query, b, si) ==
    Block(BlockTypes[b], query.source, gapSearchId, si)

\* The adapter call of one source block.
IssueGapSearch(block, query) ==
    /\ gapSearchId' = block.gapSearchId
    /\ searchIndex' = block.searchIndex
    /\ gapPhase' = block.type
    /\ calls' = Append(calls,
           Call(AdapterOf(block.type), "gap-search", block.stepId,
                query.query, Absent))

\* Entry of `for (const query of additionalQueries)` up to its first await.
GapSearchCall ==
    /\ pc = "gap_search"
    /\ gapPos <= Len(additionalQueries)
    /\ IssueGapSearch(FirstBlock(additionalQueries[gapPos], searchIndex),
                      additionalQueries[gapPos])
    /\ inflight' = inflight + 1
    /\ pc' = "gap_search_wait"
    /\ UNCHANGED <<depth, researchPlan, stepIds, completedSteps, totalSteps,
                   searchResults, stepPos, analysisPos, gapAnalysis,
                   additionalQueries, gapPos, synthesis, returned,
                   annotations, outcomes, gapFailed, genFailed>>
    /\ UNCHANGED <<findingsVars, schemaVars, tweetVars, maxVars, docVars,
                 retrieveVars, dialogVars>>

\* The code after each await of the loop: the result is pushed whatever
\* the adapter's error field says.
\* Variant: the result replaces the sequence instead of being pushed.
RecordGapSearch_Replaces(type, query, error) ==
    searchResults' = << GapResult(type, query) >>

RecordGapSearch(type, query, error) ==
    searchResults' = Append(searchResults, GapResult(type, query))

\* From the answer of one gap search to the next await: the push, then the
\* next source block of the same query, the first block of the next query,
\* or the end of the loop.
GapSearchReturn ==
    /\ pc = "gap_search_wait"
    /\ \E error \in BOOLEAN :
        /\ RecordGapSearch(gapPhase, additionalQueries[gapPos], error)
        /\ gapFailed' = (gapFailed \/ error)
    /\ LET query == additionalQueries[gapPos]
           b == NextBlock(query.source, BlockNumber(gapPhase))
       IN IF b # 0
          THEN /\ IssueGapSearch(SiblingBlock(query, b, searchIndex), query)
               /\ gapPos' = gapPos
               /\ UNCHANGED <<pc, inflight>>
          ELSE IF gapPos < Len(additionalQueries)
          THEN /\ IssueGapSearch(
                      FirstBlock(additionalQueries[gapPos + 1], searchIndex),
                      additionalQueries[gapPos + 1])
               /\ gapPos' = gapPos + 1
               /\ UNCHANGED <<pc, inflight>>
          ELSE /\ gapPos' = gapPos + 1
               /\ inflight' = inflight - 1
               /\ pc' = "gap_search"
               /\ UNCHANGED <<gapSearchId, searchIndex, gapPhase, calls>>
    /\ UNCHANGED <<depth, researchPlan, stepIds, completedSteps, totalSteps,
                   stepPos, analysisPos, gapAnalysis, additionalQueries,
                   synthesis, returned, annotations, outcomes, genFailed>>
    /\ UNCHANGED <<findingsVars, schemaVars, tweetVars, maxVars, docVars,
                 retrieveVars, dialogVars>>

(***************************************************************************)
(* Synthesizer                                                             *)
(***************************************************************************)
\* Variant: the synthesis is started without running the gap search loop.
SynthesisCall_BeforeGapSearches ==
    /\ pc = "gap_search"
    /\ annotations' = Append(annotations,
           Annotation("final-synthesis", "analysis", "running", FALSE,
                      Absent, Absent, FALSE))
    /\ calls' = Append(calls,
           Call("generateObject", "synthesis", "final-synthesis", Absent,
                Len(searchResults)))
    /\ inflight' = inflight + 1
    /\ pc' = "synthesis_wait"
    /\ UNCHANGED <<depth, researchPlan, stepIds, completedSteps, totalSteps,
                   searchResults, searchIndex, stepPos, analysisPos,
                   gapAnalysis, additionalQueries, gapPos, gapPhase,
                   gapSearchId, synthesis, returned, outcomes, gapFailed,
                   genFailed>>
    /\ UNCHANGED <<findingsVars, schemaVars, tweetVars, maxVars, docVars,
                 retrieveVars, dialogVars>>

SynthesisCall ==
    /\ pc = "gap_search"
    /\ gapPos > Len(additionalQueries)
    /\ annotations' = Append(annotations,
           Annotation("final-synthesis", "analysis", "running", FALSE,
                      Absent, Absent, FALSE))
    /\ calls' = Append(calls,
           Call("generateObject", "synthesis", "final-synthesis", Absent,
                Len(searchResults)))
    /\ inflight' = inflight + 1
    /\ pc' = "synthesis_wait"
    /\ UNCHANGED <<depth, researchPlan, stepIds, completedSteps, totalSteps,
                   searchResults, searchIndex, stepPos, analysisPos,
                   gapAnalysis, additionalQueries, gapPos, gapPhase,
                   gapSearchId, synthesis, returned, outcomes, gapFailed,
                   genFailed>>
    /\ UNCHANGED <<findingsVars, schemaVars, tweetVars, maxVars, docVars,
                 retrieveVars, dialogVars>>

\* Variant: the completed synthesis annotation is written without the
\* overwrite flag.
SynthesisReturn_NoOverwrite ==
    /\ pc = "synthesis_wait"
    /\ synthesis' = "finalSynthesis"
    /\ annotations' = Append(annotations,
           Annotation("final-synthesis", "analysis", "completed", FALSE,
                      ReportedTotal - 1, ReportedTotal, FALSE))
    /\ inflight' = inflight - 1
    /\ pc' = "final"
    /\ UNCHANGED <<depth, researchPlan, stepIds, completedSteps, totalSteps,
                   searchResults, searchIndex, stepPos, analysisPos,
                   gapAnalysis, additionalQueries, gapPos, gapPhase,
                   gapSearchId, returned, calls, outcomes, gapFailed,
                   genFailed>>
    /\ UNCHANGED <<findingsVars, schemaVars, tweetVars, maxVars, docVars,
                 retrieveVars, dialogVars>>

\* Variant: the completed synthesis annotation reports the completedSteps
\* counter, advanced for the gap analysis and the synthesis.
SynthesisReturn_ReportsCounter ==
    /\ pc = "synthesis_wait"
    /\ synthesis' = "finalSynthesis"
    /\ annotations' = Append(annotations,
           Annotation("final-synthesis", "analysis", "completed", TRUE,
                      completedSteps + 2, ReportedTotal, FALSE))
    /\ inflight' = inflight - 1
    /\ pc' = "final"
    /\ UNCHANGED <<depth, researchPlan, stepIds, completedSteps, totalSteps,
                   searchResults, searchIndex, stepPos, analysisPos,
                   gapAnalysis, additionalQueries, gapPos, gapPhase,
                   gapSearchId, returned, calls, outcomes, gapFailed,
                   genFailed>>
    /\ UNCHANGED <<findingsVars, schemaVars, tweetVars, maxVars, docVars,
                 retrieveVars, dialogVars>>

SynthesisReturn ==
    /\ pc = "synthesis_wait"
    /\ synthesis' = "finalSynthesis"
    /\ annotations' = Append(annotations,
           Annotation("final-synthesis", "analysis", "completed", TRUE,
                      ReportedTotal - 1, ReportedTotal, FALSE))
    /\ inflight' = inflight - 1
    /\ pc' = "final"
    /\ UNCHANGED <<depth, researchPlan, stepIds, completedSteps, totalSteps,
                   searchResults, searchIndex, stepPos, analysisPos,
                   gapAnalysis, additionalQueries, gapPos, gapPhase,
                   gapSearchId, returned, calls, outcomes, gapFailed,
                   genFailed>>
    /\ UNCHANGED <<findingsVars, schemaVars, tweetVars, maxVars, docVars,
                 retrieveVars, dialogVars>>

SynthesisFail ==
    /\ pc = "synthesis_wait"
    /\ Throw

(***************************************************************************)
(* Final progress update and return                                        *)
(***************************************************************************)
\* Variant: the final progress reports the completedSteps counter.
Finish_ReportsCounter ==
    /\ pc = "final"
    /\ annotations' = Append(annotations,
           Annotation("research-progress", "progress", "completed", TRUE,
                      completedSteps, ReportedTotal, TRUE))
    /\ returned' = << [plan |-> researchPlan, results |-> searchResults,
                       synthesis |-> synthesis] >>
    /\ pc' = "done"
    /\ UNCHANGED <<depth, researchPlan, stepIds, completedSteps, totalSteps,
                   searchResults, searchIndex, stepPos, analysisPos,
                   gapAnalysis, additionalQueries, gapPos, gapPhase,
                   gapSearchId, synthesis, calls, inflight, outcomes,
                   gapFailed, genFailed>>
    /\ UNCHANGED <<findingsVars, schemaVars, tweetVars, maxVars, docVars,
                 retrieveVars, dialogVars>>

\* Variant: the slot of the synthesis is counted only when it ran.
Finish_CountsSynthesis ==
    /\ pc = "final"
    /\ LET total == totalSteps + 1 + (IF synthesis # Null THEN 1 ELSE 0)
       IN annotations' = Append(annotations,
              Annotation("research-progress", "progress", "completed", TRUE,
                         total, total, TRUE))
    /\ returned' = << [plan |-> researchPlan, results |-> searchResults,
                       synthesis |-> synthesis] >>
    /\ pc' = "done"
    /\ UNCHANGED <<depth, researchPlan, stepIds, completedSteps, totalSteps,
                   searchResults, searchIndex, stepPos, analysisPos,
                   gapAnalysis, additionalQueries, gapPos, gapPhase,
                   gapSearchId, synthesis, calls, inflight, outcomes,
                   gapFailed, genFailed>>
    /\ UNCHANGED <<findingsVars, schemaVars, tweetVars, maxVars, docVars,
                 retrieveVars, dialogVars>>

Finish ==
    /\ pc = "final"
    /\ annotations' = Append(annotations,
           Annotation("research-progress", "progress", "completed", TRUE,
                      ReportedTotal, ReportedTotal, TRUE))
    /\ returned' = << [plan |-> researchPlan, results |-> searchResults,
                       synthesis |-> synthesis] >>
    /\ pc' = "done"
    /\ UNCHANGED <<depth, researchPlan, stepIds, completedSteps, totalSteps,
                   searchResults, searchIndex, stepPos, analysisPos,
                   gapAnalysis, additionalQueries, gapPos, gapPhase,
                   gapSearchId, synthesis, calls, inflight, outcomes,
                   gapFailed, genFailed>>
    /\ UNCHANGED <<findingsVars, schemaVars, tweetVars, maxVars, docVars,
                 retrieveVars, dialogVars>>

Next ==
    \/ StartRun
    \/ PlanReturn
    \/ PlanFail
    \/ SearchCall
    \/ SearchReturn
    \/ SearchDone
    \/ AnalysisCall
    \/ AnalysisReturn
    \/ AnalysisFail
    \/ GapAnalysisCall
    \/ GapAnalysisReturn
    \/ GapAnalysisFail
    \/ GapSearchCall
    \/ GapSearchReturn
    \/ SynthesisCall
    \/ SynthesisReturn
    \/ SynthesisFail
    \/ Finish

Spec == Init /\ [][Next]_vars

(***************************************************************************)
(* Vocabulary of the properties.                                           *)
(***************************************************************************)
Last(s) == s[Len(s)]

SelectIdx(s, P(_)) == {i \in DOMAIN s : P(s[i])}

CountWhere(s, P(_)) == Cardinality(SelectIdx(s, P))

CarriesProgress(a) == a.completedSteps # Absent /\ a.totalSteps # Absent

IsSearchCall(c) == c.stage = "search"
IsGapSearchCall(c) == c.stage = "gap-search"
IsSynthesisCall(c) == c.stage = "synthesis"
IsPlanEntry(e) == e.origin = "plan"
IsGapEntry(e) == e.origin = "gap"
IsSuccess(o) == ~o

\* The initial search pass is over once a later stage has made a call.
SearchPassOver ==
    \E i \in DOMAIN calls : calls[i].stage \in {"analysis", "gap-analysis"}

\* The Deepening Pass has made all its searches once the synthesis is called.
GapPassOver == \E i \in DOMAIN calls : IsSynthesisCall(calls[i])

HasCompleted(id) ==
    \E i \in DOMAIN annotations :
        annotations[i].id = id /\ annotations[i].status = "completed"

AllSearchesFailed ==
    /\ SearchPassOver
    /\ Len(stepIds.searchSteps) >= 1
    /\ \A i \in DOMAIN outcomes : outcomes[i]

(***************************************************************************)
(* C1: every annotation that carries completedSteps and totalSteps has     *)
(* completedSteps <= totalSteps, whatever the plan, the depth and the      *)
(* adapter failures.                                                       *)
(***************************************************************************)
C1_CompletedAtMostTotal ==
    \A i \in DOMAIN annotations :
        CarriesProgress(annotations[i])
            => annotations[i].completedSteps <= annotations[i].totalSteps

\* An advanced run that lost a search step, deepened, and wrote all three
\* progress-carrying annotations.
C1_Witness ==
    /\ pc = "done"
    /\ depth = "advanced"
    /\ \E i \in DOMAIN outcomes : outcomes[i]
    /\ CountWhere(annotations, CarriesProgress) = 3

(***************************************************************************)
(* C2: the totalSteps of the plan-completed annotation is the number of    *)
(* search steps plus the number of required analyses, a query of source    *)
(* 'all' counting for 3 search steps and any other query for 1.            *)
(***************************************************************************)
RECURSIVE CountSearchSteps(_)
CountSearchSteps(queries) ==
    IF queries = <<>> THEN 0
    ELSE (IF Head(queries) = "all" THEN 3 ELSE 1)
            + CountSearchSteps(Tail(queries))

IsPlanCompleted(a) == a.type = "plan" /\ a.status = "completed"

C2_PlanTotalSteps ==
    \A i \in DOMAIN annotations :
        IsPlanCompleted(annotations[i])
            => annotations[i].totalSteps =
                  CountSearchSteps(researchPlan.search_queries)
                     + Len(researchPlan.required_analyses)

C2_Witness ==
    /\ \E i \in DOMAIN annotations : IsPlanCompleted(annotations[i])
    /\ \E q \in DOMAIN researchPlan.search_queries :
           researchPlan.search_queries[q] = "all"
    /\ Len(researchPlan.required_analyses) = 2

(***************************************************************************)
(* C3: in the initial pass a search step whose adapter reports an error    *)
(* does not increment completedSteps and appends no SearchResult entry,    *)
(* and every later search step of the plan is still executed.              *)
(***************************************************************************)
EntryOfStep(step) ==
    \E j \in DOMAIN searchResults :
        /\ searchResults[j].origin = "plan"
        /\ searchResults[j].type = step.type
        /\ searchResults[j].query = step.query

C3_FailedStepSkipped ==
    /\ completedSteps = CountWhere(outcomes, IsSuccess)
    /\ CountWhere(searchResults, IsPlanEntry) = CountWhere(outcomes, IsSuccess)
    /\ \A i \in DOMAIN outcomes :
           outcomes[i] => ~EntryOfStep(stepIds.searchSteps[i])
    /\ SearchPassOver =>
          /\ Len(outcomes) = Len(stepIds.searchSteps)
          /\ CountWhere(calls, IsSearchCall) = Len(stepIds.searchSteps)
          /\ \A i \in DOMAIN stepIds.searchSteps :
                \E j \in DOMAIN calls :
                    /\ IsSearchCall(calls[j])
                    /\ calls[j].stepId = stepIds.searchSteps[i].id

\* The first of three steps failed, the two later ones ran and succeeded.
C3_Witness ==
    /\ SearchPassOver
    /\ outcomes = <<TRUE, FALSE, FALSE>>
    /\ completedSteps = 2
    /\ Len(searchResults) = 2

(***************************************************************************)
(* C4: when every initial search step fails, each planned analysis and     *)
(* the gap analysis still run, over an empty SearchResult sequence, each   *)
(* writes its completed annotation, and the run reaches the final          *)
(* progress event (no generation call failing).                            *)
(***************************************************************************)
C4_AllFailedStillAnalyses ==
    AllSearchesFailed =>
        /\ \A i \in DOMAIN calls :
              calls[i].stage \in {"analysis", "gap-analysis"}
                  => calls[i].evidence = 0
        /\ pc = "aborted" => genFailed
        /\ pc \notin {"done", "aborted"} => ENABLED Next
        /\ pc = "done" =>
              /\ \A k \in DOMAIN stepIds.analysisSteps :
                    HasCompleted(stepIds.analysisSteps[k].id)
              /\ HasCompleted("gap-analysis")
              /\ Last(annotations).id = "research-progress"
              /\ Last(annotations).isComplete

C4_Witness ==
    /\ AllSearchesFailed
    /\ Len(stepIds.searchSteps) = 3
    /\ Len(stepIds.analysisSteps) = 2
    /\ pc = "done"

(***************************************************************************)
(* C5: a failing generation call (plan, an analysis, gap analysis or       *)
(* synthesis) aborts the run there: no later call, no later annotation,    *)
(* no research-progress event, no returned payload.                        *)
(***************************************************************************)
\* The annotation execute writes right before the generation call c.
RunningIdOf(c) ==
    IF c.stage = "plan" THEN "research-plan-initial" ELSE c.stepId

C5_GenerationFailureAborts ==
    genFailed =>
        /\ pc = "aborted"
        /\ ~ENABLED Next
        /\ returned = <<>>
        /\ Last(calls).kind = "generateObject"
        /\ Last(annotations).status = "running"
        /\ Last(annotations).id = RunningIdOf(Last(calls))
        /\ \A i \in DOMAIN annotations : ~annotations[i].isComplete

\* The second analysis fails after the first one completed over evidence.
C5_Witness ==
    /\ genFailed
    /\ Last(calls).stage = "analysis"
    /\ Last(calls).stepId = "analysis-1"
    /\ Len(searchResults) > 0

(***************************************************************************)
(* C6: in the Deepening Pass a gap search whose adapter reports an error   *)
(* appends no SearchResult entry, and the remaining gap searches and the   *)
(* synthesis still execute.                                                *)
(***************************************************************************)
\* Gap searches answered so far.
GapSearchesAnswered ==
    CountWhere(calls, IsGapSearchCall)
        - (IF pc = "gap_search_wait" THEN 1 ELSE 0)

\* If a failed gap search appended nothing, a pass with a failure would hold
\* fewer gap entries than answered gap searches.
C6_FailedGapSearchSkipped ==
    gapFailed => CountWhere(searchResults, IsGapEntry) < GapSearchesAnswered

(***************************************************************************)
(* C7: a run of depth 'basic' makes no gap-driven adapter call and no      *)
(* synthesis call, whatever the gap analysis returns.                      *)
(***************************************************************************)
C7_BasicNeverDeepens ==
    depth = "basic" =>
        \A i \in DOMAIN calls :
            ~IsGapSearchCall(calls[i]) /\ ~IsSynthesisCall(calls[i])

\* A finished basic run whose gap analysis named a gap with queries.
C7_Witness ==
    /\ depth = "basic"
    /\ pc = "done"
    /\ \E g \in DOMAIN gapAnalysis.knowledge_gaps :
           Len(gapAnalysis.knowledge_gaps[g].additional_queries) > 0

(***************************************************************************)
(* C8: the synthesis of the returned payload is non-null exactly when the  *)
(* Deepening Pass ran, that is when depth is 'advanced' and the gap        *)
(* analysis returned at least one knowledge gap.                           *)
(***************************************************************************)
C8_SynthesisIffDeepened ==
    returned # <<>> =>
        /\ (returned[1].synthesis # Null)
              <=> (depth = "advanced" /\ Len(gapAnalysis.knowledge_gaps) > 0)
        /\ (returned[1].synthesis # Null) <=> GapPassOver

\* A gap without any additional query still makes the pass run.
C8_Witness ==
    /\ returned # <<>>
    /\ returned[1].synthesis # Null
    /\ Len(gapAnalysis.knowledge_gaps) = 1
    /\ additionalQueries = <<>>

(***************************************************************************)
(* C9: in an advanced run a gap with k >= 1 additional queries causes 3    *)
(* adapter calls (web, academic, x) for its first query and 1 for each of  *)
(* the other k-1; 2 gaps of 3 queries give 10 gap searches and, no adapter *)
(* failing, 10 more SearchResult entries.                                  *)
(***************************************************************************)
GapCallsFor(g, idx) ==
    {i \in DOMAIN calls :
        IsGapSearchCall(calls[i]) /\ calls[i].q = <<g, idx>>}

RECURSIVE ExpectedGapSearches(_)
ExpectedGapSearches(gaps) ==
    IF gaps = <<>> THEN 0
    ELSE (IF Len(Head(gaps).additional_queries) >= 1
          THEN 3 + (Len(Head(gaps).additional_queries) - 1)
          ELSE 0) + ExpectedGapSearches(Tail(gaps))

C9_GapSearchCount ==
    GapPassOver =>
        /\ \A g \in DOMAIN gapAnalysis.knowledge_gaps :
           \A j \in DOMAIN gapAnalysis.knowledge_gaps[g].additional_queries :
               IF j = 1
               THEN /\ Cardinality(GapCallsFor(g - 1, 0)) = 3
                    /\ {calls[i].kind : i \in GapCallsFor(g - 1, 0)} =
                          {"webSearchStep", "academicSearchStep", "xSearchStep"}
               ELSE Cardinality(GapCallsFor(g - 1, j - 1)) = 1
        /\ CountWhere(calls, IsGapSearchCall) =
              ExpectedGapSearches(gapAnalysis.knowledge_gaps)
        /\ ~gapFailed =>
              CountWhere(searchResults, IsGapEntry) =
                  ExpectedGapSearches(gapAnalysis.knowledge_gaps)

C9_Witness ==
    /\ GapPassOver
    /\ ~gapFailed
    /\ Len(gapAnalysis.knowledge_gaps) = 2
    /\ \A g \in DOMAIN gapAnalysis.knowledge_gaps :
           Len(gapAnalysis.knowledge_gaps[g].additional_queries) = 3
    /\ CountWhere(calls, IsGapSearchCall) = 10
    /\ CountWhere(searchResults, IsGapEntry) = 10

(***************************************************************************)
(* C10: within each gap the additional query at index 0 gets source 'all'  *)
(* and the one at index idx >= 1 gets element idx mod 3 of (web, academic, *)
(* x); the assignment restarts at every gap and gives 'all' to no other    *)
(* index.                                                                  *)
(***************************************************************************)
Rotation == <<"web", "academic", "x">>

ExpectedSource(idx) == IF idx = 0 THEN "all" ELSE Rotation[(idx % 3) + 1]

WaitStates ==
    {"plan_wait", "search_wait", "analysis_wait", "gap_wait",
     "gap_search_wait", "synthesis_wait"}

C11_OneCallInFlight ==
    /\ inflight \in {0, 1}
    /\ (inflight = 1) <=> (pc \in WaitStates)
    /\ pc \in {"done", "aborted"} => inflight = 0

\* The sixth call of a run is awaited alone.
C11_Witness ==
    /\ pc = "gap_search_wait"
    /\ inflight = 1
    /\ Len(calls) >= 6

(***************************************************************************)
(* C12: initial search steps are invoked one at a time in plan order       *)
(* (queries by index; web, academic, x for a query of source 'all'), and   *)
(* after the initial pass the SearchResult sequence is the subsequence of  *)
(* that order made of the steps whose adapter reported no error.           *)
(***************************************************************************)
RECURSIVE PlanOrder(_, _)
\* The <<type, query index>> pairs of the plan, from zero-based index i on.
PlanOrder(queries, i) ==
    IF queries = <<>> THEN <<>>
    ELSE (IF Head(queries) = "all"
          THEN << <<"web", i>>, <<"academic", i>>, <<"x", i>> >>
          ELSE << <<Head(queries), i>> >>)
         \o PlanOrder(Tail(queries), i + 1)

RECURSIVE KeepSuccessful(_, _)
KeepSuccessful(order, errors) ==
    IF order = <<>> \/ errors = <<>> THEN <<>>
    ELSE (IF Head(errors) THEN <<>> ELSE <<Head(order)>>)
         \o KeepSuccessful(Tail(order), Tail(errors))

SearchCallOrder ==
    LET cs == SelectSeq(calls, IsSearchCall)
    IN [i \in 1..Len(cs) |-> <<cs[i].kind, cs[i].q>>]

PlanEntryOrder ==
    LET es == SelectSeq(searchResults, IsPlanEntry)
    IN [i \in 1..Len(es) |-> <<es[i].type, es[i].query>>]

AdapterOrder(order) ==
    [i \in 1..Len(order) |-> <<AdapterOf(order[i][1]), order[i][2]>>]

StageRank(stage) ==
    CASE stage = "plan" -> 1
      [] stage = "search" -> 2
      [] stage = "analysis" -> 3
      [] stage = "gap-analysis" -> 4
      [] stage = "gap-search" -> 5
      [] stage = "synthesis" -> 6

IsPlanCall(c) == c.stage = "plan"
IsAnalysisCall(c) == c.stage = "analysis"
IsGapAnalysisCall(c) == c.stage = "gap-analysis"

AnalysisCallIds ==
    LET cs == SelectSeq(calls, IsAnalysisCall)
    IN [i \in 1..Len(cs) |-> cs[i].stepId]

PlannedAnalysisIds ==
    [i \in 1..Len(stepIds.analysisSteps) |-> stepIds.analysisSteps[i].id]

C13_StageOrder ==
    /\ \A i, j \in DOMAIN calls :
          i < j => StageRank(calls[i].stage) <= StageRank(calls[j].stage)
    /\ Len(SelectSeq(calls, IsPlanCall)) <= 1
    /\ Len(SelectSeq(calls, IsGapAnalysisCall)) <= 1
    /\ Len(SelectSeq(calls, IsSynthesisCall)) <= 1
    /\ calls # <<>> => IsPlanCall(calls[1])
    /\ AnalysisCallIds = SubSeq(PlannedAnalysisIds, 1, Len(AnalysisCallIds))
    /\ (\E i \in DOMAIN calls : IsGapAnalysisCall(calls[i])) =>
          /\ Len(SelectSeq(calls, IsSearchCall)) = Len(stepIds.searchSteps)
          /\ AnalysisCallIds = PlannedAnalysisIds
    /\ GapPassOver =>
          Len(SelectSeq(calls, IsGapSearchCall)) =
              ExpectedGapSearches(gapAnalysis.knowledge_gaps)
    /\ returned # <<>> =>
          /\ pc = "done"
          /\ Last(annotations).id = "research-progress"
          /\ Len(SelectSeq(calls, IsGapAnalysisCall)) = 1
          /\ GapPassOver <=> Deepens(depth, gapAnalysis)
    /\ (\E i \in DOMAIN annotations : annotations[i].isComplete)
          => returned # <<>>

\* A returned run that went through all six stages.
C13_Witness ==
    /\ returned # <<>>
    /\ {calls[i].stage : i \in DOMAIN calls} =
          {"plan", "search", "analysis", "gap-analysis", "gap-search",
           "synthesis"}
    /\ Len(stepIds.analysisSteps) = 2

(***************************************************************************)
(* C14: running/completed pairs are never interleaved: between the running *)
(* annotation of an analysis, of the gap analysis or of the synthesis and  *)
(* the completed annotation of the same step, the orchestrator writes no   *)
(* annotation with another id.                                             *)
(***************************************************************************)
IsStepRunning(a) == a.type = "analysis" /\ a.status = "running"

C14_PairsNotInterleaved ==
    \A i \in DOMAIN annotations :
        IsStepRunning(annotations[i]) =>
            IF i = Len(annotations)
            THEN pc \in {"analysis_wait", "gap_wait", "synthesis_wait",
                         "aborted"}
            ELSE /\ annotations[i + 1].id = annotations[i].id
                 /\ annotations[i + 1].status = "completed"

\* Two analyses, the gap analysis and the synthesis each wrote their pair.
C14_Witness ==
    /\ pc = "done"
    /\ Len(SelectSeq(annotations, IsStepRunning)) = 4

(***************************************************************************)
(* C15: every running-to-completed lifecycle the orchestrator writes       *)
(* (research plan, each analysis, gap analysis, final synthesis) is two    *)
(* writes to one slot: the completed annotation carries the id of the      *)
(* preceding running annotation and overwrite: true.                       *)
(***************************************************************************)
IsLifecycleEnd(a) == a.type \in {"plan", "analysis"} /\ a.status = "completed"

\* The annotation at i closes the slot opened by the running one before it.
ClosesSlot(i) ==
    /\ annotations[i].overwrite
    /\ i > 1
    /\ annotations[i - 1].status = "running"
    /\ annotations[i - 1].id = annotations[i].id

\* The claim as stated, the research plan included.
C15_EveryLifecycleOneSlot ==
    \A i \in DOMAIN annotations :
        IsLifecycleEnd(annotations[i]) => ClosesSlot(i)

\* C15 as amended: the analyses, the gap analysis and the final synthesis
\* close the slot of their running annotation; the plan-completed
\* annotation (id research-plan, overwrite: true) follows a running
\* annotation of the other id research-plan-initial.
C15_StepLifecycleOneSlot ==
    \A i \in DOMAIN annotations :
        IsLifecycleEnd(annotations[i]) =>
            IF annotations[i].type = "analysis"
            THEN ClosesSlot(i)
            ELSE /\ annotations[i].overwrite
                 /\ annotations[i].id = "research-plan"
                 /\ i > 1
                 /\ annotations[i - 1].status = "running"
                 /\ annotations[i - 1].id = "research-plan-initial"

C15_Witness ==
    /\ pc = "done"
    /\ Len(SelectSeq(annotations, IsLifecycleEnd)) = 5

(***************************************************************************)
(* The client's view of the progress channel: an event with overwrite:     *)
(* true whose id the view already holds replaces the event of that id,     *)
(* any other event is appended.                                            *)
(***************************************************************************)
ClientApply(view, e) ==
    IF e.overwrite /\ \E k \in DOMAIN view : view[k].id = e.id
    THEN [k \in DOMAIN view |-> IF view[k].id = e.id THEN e ELSE view[k]]
    ELSE Append(view, e)

RECURSIVE ClientView(_)
ClientView(events) ==
    IF events = <<>> THEN <<>>
    ELSE ClientApply(ClientView(SubSeq(events, 1, Len(events) - 1)),
                     Last(events))

\* The last event of the sequence written with the given id.
LastWritten(events, id) ==
    events[CHOOSE i \in DOMAIN events :
               /\ events[i].id = id
               /\ \A j \in DOMAIN events : events[j].id = id => j <= i]

(***************************************************************************)
(* C16: the client rule applied to the annotations of a successful run     *)
(* yields a view in which every id written appears exactly once and shows  *)
(* the last event written with that id.                                    *)
(***************************************************************************)
C16_LastWriteWins ==
    pc = "done" =>
        LET view == ClientView(annotations)
        IN /\ \A i, j \in DOMAIN view : view[i].id = view[j].id => i = j
           /\ \A i \in DOMAIN annotations :
                  \E k \in DOMAIN view :
                      /\ view[k].id = annotations[i].id
                      /\ view[k] = LastWritten(annotations, annotations[i].id)

C16_Witness ==
    /\ pc = "done"
    /\ Len(annotations) = 11
    /\ Len(ClientView(annotations)) = 7

(***************************************************************************)
(* C17: within one run the step ids handed to search adapters and used     *)
(* for analysis annotations are pairwise distinct, within each pass and    *)
(* between the initial pass and the deepening pass.                        *)
(***************************************************************************)
UsesStepId(c) == IsSearchCall(c) \/ IsGapSearchCall(c) \/ IsAnalysisCall(c)

C17_StepIdsDistinct ==
    \A i, j \in DOMAIN calls :
        /\ UsesStepId(calls[i])
        /\ UsesStepId(calls[j])
        /\ calls[i].stepId = calls[j].stepId
        => i = j

C17_Witness ==
    /\ pc = "done"
    /\ Len(SelectSeq(calls, IsSearchCall)) = 3
    /\ Len(SelectSeq(calls, IsGapSearchCall)) >= 5
    /\ Len(SelectSeq(calls, IsAnalysisCall)) = 2

(***************************************************************************)
(* Step ids of the adapter calls.                                          *)
(***************************************************************************)
\* The source type an adapter searches.
TypeOfCall(c) ==
    CASE c.kind = "webSearchStep" -> "web"
      [] c.kind = "academicSearchStep" -> "academic"
      [] c.kind = "xSearchStep" -> "x"

\* The indices a step id of this run can carry.
Indices == (0 - 3)..(searchIndex + 3)

PassPrefix(c) == IF IsGapSearchCall(c) THEN "gap-search-" ELSE "search-"

\* <prefix><sourcetype>-<n> for the adapter that receives the id.
TypedId(c, n) == PassPrefix(c) \o TypeOfCall(c) \o "-" \o ToString(n)

\* The source of the query an adapter call is made for.
SourceOfCall(c) ==
    IF IsGapSearchCall(c)
    THEN LET k == CHOOSE k \in DOMAIN additionalQueries :
                      additionalQueries[k].query = c.q
         IN additionalQueries[k].source
    ELSE researchPlan.search_queries[c.q + 1]

IsAdapterCall(c) == IsSearchCall(c) \/ IsGapSearchCall(c)

\* Two adapter calls of the fan-out of one query with source 'all'.
Siblings(i, j) ==
    /\ IsAdapterCall(calls[i])
    /\ IsAdapterCall(calls[j])
    /\ calls[i].stage = calls[j].stage
    /\ calls[i].q = calls[j].q
    /\ SourceOfCall(calls[i]) = "all"

(***************************************************************************)
(* C18: whenever a query with source 'all' is fanned out into web,         *)
(* academic and x steps, in the initial pass and in the deepening pass     *)
(* alike, the three sibling step ids carry the same index.                 *)
(***************************************************************************)
C18_SiblingsShareIndex ==
    \A i, j \in DOMAIN calls :
        Siblings(i, j) =>
            \E n \in Indices :
                /\ calls[i].stepId = TypedId(calls[i], n)
                /\ calls[j].stepId = TypedId(calls[j], n)

(***************************************************************************)
(* C19: every step id passed to a search adapter has the form              *)
(* search-<sourcetype>-<i> in the initial pass and                         *)
(* gap-search-<sourcetype>-<i> in the deepening pass, <sourcetype> being   *)
(* the type of the adapter that receives it and <i> a non-negative         *)
(* integer.                                                                *)
(***************************************************************************)
C19_StepIdForm ==
    \A i \in DOMAIN calls :
        IsAdapterCall(calls[i]) =>
            \E n \in Indices : n >= 0 /\ calls[i].stepId = TypedId(calls[i], n)

(***************************************************************************)
(* C20: the SearchResult sequence of a run is append-only: every step      *)
(* leaves it a prefix of its next value, so that no entry is removed,      *)
(* replaced or reordered, and the results field of the returned payload    *)
(* is the sequence as it stands at the end.                                *)
(***************************************************************************)
IsPrefix(s, t) == Len(s) <= Len(t) /\ SubSeq(t, 1, Len(s)) = s

C20_AppendOnly ==
    [][/\ IsPrefix(searchResults, searchResults')
       /\ returned' # <<>> => returned'[1].results = searchResults']_vars

C20_Witness ==
    /\ pc = "done"
    /\ returned # <<>>
    /\ returned[1].results = searchResults
    /\ \E i, j \in DOMAIN searchResults :
           /\ i < j
           /\ IsPlanEntry(searchResults[i])
           /\ IsGapEntry(searchResults[j])
    /\ Len(searchResults) >= 4

(***************************************************************************)
(* Progress counts reported to the client.                                 *)
(***************************************************************************)
\* An initial search step has answered with an error.
SomeSearchFailed == \E i \in DOMAIN outcomes : outcomes[i]

(***************************************************************************)
(* C21: in every run where at least one initial search step failed, every  *)
(* annotation written after the failure that carries completedSteps and    *)
(* totalSteps has completedSteps strictly less than totalSteps.            *)
(***************************************************************************)
C21_FailureShowsInProgress ==
    SomeSearchFailed =>
        \A i \in DOMAIN annotations :
            CarriesProgress(annotations[i]) =>
                annotations[i].completedSteps < annotations[i].totalSteps

IsGapAnalysisCompleted(a) == a.id = "gap-analysis" /\ a.status = "completed"

\* The totalSteps announced by the plan-completed annotation.
PlanTimeTotal ==
    annotations[CHOOSE i \in DOMAIN annotations :
                    IsPlanCompleted(annotations[i])].totalSteps

(***************************************************************************)
(* C22: the totalSteps of the gap-analysis completed annotation is the     *)
(* plan-time totalSteps plus 1 at depth 'basic' and plus 2 at depth        *)
(* 'advanced', and every later annotation that carries totalSteps reports  *)
(* the same value.                                                         *)
(***************************************************************************)
C22_RecomputedTotal ==
    \A i \in DOMAIN annotations :
        IsGapAnalysisCompleted(annotations[i]) =>
            /\ depth = "basic" =>
                   annotations[i].totalSteps = PlanTimeTotal + 1
            /\ depth = "advanced" =>
                   annotations[i].totalSteps = PlanTimeTotal + 2
            /\ \A j \in DOMAIN annotations :
                   j > i /\ annotations[j].totalSteps # Absent =>
                       annotations[j].totalSteps = annotations[i].totalSteps

C22_Witness ==
    /\ pc = "done"
    /\ depth = "advanced"
    /\ PlanTimeTotal = 4
    /\ HasCompleted("final-synthesis")
    /\ Last(annotations).totalSteps = 6

IsSynthesisCompleted(a) == a.id = "final-synthesis" /\ a.status = "completed"

(***************************************************************************)
(* C23: the final-synthesis completed annotation reports completedSteps    *)
(* equal to its own totalSteps minus 1, whatever the number of failed      *)
(* search steps and of gap searches executed.                              *)
(***************************************************************************)
C23_SynthesisOneBeforeTotal ==
    \A i \in DOMAIN annotations :
        IsSynthesisCompleted(annotations[i]) =>
            annotations[i].completedSteps = annotations[i].totalSteps - 1

C23_Witness ==
    /\ HasCompleted("final-synthesis")
    /\ SomeSearchFailed
    /\ CountWhere(calls, IsGapSearchCall) >= 4

(***************************************************************************)
(* Gap analysis findings: the limitations the gap analysis returns and     *)
(* the findings of the gap-analysis completed annotation, on their own.    *)
(***************************************************************************)
MaxLimitations == 2

\* severity: z.number().min(2).max(10)
MinSeverity == 2
MaxSeverity == 10

\* limitations: z.array(z.object({ ..., severity, ... })), whole severities.
Limitations ==
    SeqsUpTo({[severity |-> s] : s \in MinSeverity..MaxSeverity},
             MaxLimitations)

\* No run is in progress.
RunIdle == RunInit /\ depth = "basic"

\* Variant: the score is clamped at zero.
Confidence_Clamped(severity) ==
    [num |-> IF severity > 6 THEN 0 ELSE 6 - severity, den |-> 5]

\* (6 - l.severity) / 5, as the fraction num / den.
Confidence(severity) == [num |-> 6 - severity, den |-> 5]

\* gapAnalysis.limitations.map((l) => ({ ..., confidence: ... }))
FindingsOf(ls) ==
    [i \in DOMAIN ls |-> [confidence |-> Confidence(ls[i].severity)]]

InitFindings ==
    /\ RunIdle
    /\ SchemaIdle
    /\ TweetsIdle
    /\ ToolsIdle
    /\ limitations \in Limitations
    /\ findings = <<>>

\* The gap-analysis completed annotation is built.
WriteFindings ==
    /\ findings = <<>>
    /\ findings' = << FindingsOf(limitations) >>
    /\ UNCHANGED <<runVars, limitations, schemaVars, tweetVars, maxVars,
                   docVars, retrieveVars, dialogVars>>

NextFindings == WriteFindings

SpecFindings == InitFindings /\ [][NextFindings]_vars

(***************************************************************************)
(* C24: for every limitation of integer severity s in 2..10 the finding    *)
(* at the same position of the gap-analysis completed annotation has       *)
(* confidence exactly (6 - s) / 5, unclamped: 5 * confidence = 6 - s,      *)
(* negative for every s > 6, and -0.8 (= -8 / 10) for severity 10.         *)
(***************************************************************************)
C24_ConfidenceFormula ==
    findings # <<>> =>
        /\ Len(findings[1]) = Len(limitations)
        /\ \A i \in DOMAIN limitations :
               LET s == limitations[i].severity
                   c == findings[1][i].confidence
               IN /\ c.den > 0
                  /\ 5 * c.num = (6 - s) * c.den
                  /\ s > 6 => c.num < 0
                  /\ s = 10 => 10 * c.num = (0 - 8) * c.den

C24_Witness ==
    /\ findings # <<>>
    /\ Len(limitations) = 2
    /\ limitations[1].severity = 10
    /\ limitations[2].severity = 2

(***************************************************************************)
(* Plan Generator schema: the object the model produces for the research   *)
(* plan is validated against the zod schema passed to generateObject; an   *)
(* accepted object becomes researchPlan, a rejected one makes the call     *)
(* throw.                                                                  *)
(***************************************************************************)
MaxCandQueries == 13
MaxCandAnalyses == 9

\* search_queries: z.array(...).max(12), required_analyses: ....max(8)
SchemaMaxQueries == 12
SchemaMaxAnalyses == 8

\* priority / importance: z.number().min(1).max(5)
SchemaMinRank == 1
SchemaMaxRank == 5

\* A candidate of nAll queries of source 'all' followed by nWeb queries of
\* source 'web', the first query with priority p and the others with 3,
\* and nAn analyses of importance 3.
CandidatePlan(nAll, nWeb, p, nAn) ==
    [search_queries |->
         [i \in 1..(nAll + nWeb) |->
             [source |-> IF i <= nAll THEN "all" ELSE "web",
              priority |-> IF i = 1 THEN p ELSE 3]],
     required_analyses |-> [i \in 1..nAn |-> [importance |-> 3]]]

Candidates ==
    {CandidatePlan(nAll, nWeb, p, nAn) :
        nAll \in 0..MaxCandQueries, nWeb \in 0..1, p \in 0..6,
        nAn \in 0..MaxCandAnalyses}

InRank(n) == SchemaMinRank <= n /\ n <= SchemaMaxRank

\* The zod schema of the plan generation call.
SchemaAccepts(plan) ==
    /\ Len(plan.search_queries) <= SchemaMaxQueries
    /\ \A i \in DOMAIN plan.search_queries :
           /\ plan.search_queries[i].source \in Sources
           /\ InRank(plan.search_queries[i].priority)
    /\ Len(plan.required_analyses) <= SchemaMaxAnalyses
    /\ \A i \in DOMAIN plan.required_analyses :
           InRank(plan.required_analyses[i].importance)

\* The plan as the run's state holds it: the source of each query and one
\* entry for each analysis.
PlanOf(cand) ==
    [search_queries |->
         [i \in DOMAIN cand.search_queries |-> cand.search_queries[i].source],
     required_analyses |->
         [i \in DOMAIN cand.required_analyses |-> "analysis"]]

InitSchema ==
    /\ RunIdle
    /\ FindingsIdle
    /\ TweetsIdle
    /\ ToolsIdle
    /\ candidate \in Candidates
    /\ verdict = "none"
    /\ planTotal = Absent

\* generateObject resolves with the object; totalSteps is computed from it.
AcceptPlan ==
    /\ verdict = "none"
    /\ SchemaAccepts(candidate)
    /\ verdict' = "accepted"
    /\ planTotal' = TotalStepsOf(generateStepIds(PlanOf(candidate)))
    /\ UNCHANGED <<runVars, findingsVars, candidate, tweetVars, maxVars,
                   docVars, retrieveVars, dialogVars>>

\* generateObject throws on an object that violates the schema.
RejectPlan ==
    /\ verdict = "none"
    /\ ~SchemaAccepts(candidate)
    /\ verdict' = "rejected"
    /\ UNCHANGED <<runVars, findingsVars, candidate, planTotal, tweetVars,
                   maxVars, docVars, retrieveVars, dialogVars>>

NextSchema ==
    \/ AcceptPlan
    \/ RejectPlan

SpecSchema == InitSchema /\ [][NextSchema]_vars

(***************************************************************************)
(* C25: every plan accepted by the Plan Generator has each search query's  *)
(* priority between 2 and 4 inclusive, never 0 or 1.                       *)
(***************************************************************************)
C25_PriorityTwoToFour ==
    verdict = "accepted" =>
        \A i \in DOMAIN candidate.search_queries :
            candidate.search_queries[i].priority \in 2..4

(***************************************************************************)
(* C26: for every plan accepted by the Plan Generator the totalSteps       *)
(* announced in the plan-completed annotation (searches + analyses) does   *)
(* not exceed 20.                                                          *)
(***************************************************************************)
C26_AtMostTwentySteps ==
    verdict = "accepted" => planTotal <= 20

IsPlanRunning(a) == a.type = "plan" /\ a.status = "running"

(***************************************************************************)
(* C27: in every run the plan generation call is made exactly once; a      *)
(* plan annotation with status running is written before that call, and a  *)
(* plan annotation with status completed, carrying the full plan and       *)
(* totalSteps, is written after it returns and before any search-adapter   *)
(* call.                                                                   *)
(***************************************************************************)
C27_PlanStage ==
    /\ CountWhere(calls, IsPlanCall) = (IF pc = "start" THEN 0 ELSE 1)
    /\ CountWhere(annotations, IsPlanRunning) = (IF pc = "start" THEN 0 ELSE 1)
    /\ CountWhere(annotations, IsPlanCompleted) <= 1
    /\ pc = "plan_wait" =>
           /\ calls = << Call("generateObject", "plan", "research-plan",
                              Absent, Absent) >>
           /\ Len(annotations) = 1
           /\ IsPlanRunning(annotations[1])
    /\ Len(calls) > 1 =>
           /\ IsPlanCall(calls[1])
           /\ IsPlanRunning(annotations[1])
           /\ IsPlanCompleted(annotations[2])
           /\ annotations[2].plan = researchPlan
           /\ annotations[2].totalSteps = CountSearchSteps(researchPlan.search_queries)
                                          + Len(researchPlan.required_analyses)

C27_Witness ==
    /\ pc = "search_wait"
    /\ Len(calls) = 2
    /\ IsSearchCall(calls[2])
    /\ Len(annotations) = 2
    /\ annotations[2].plan.search_queries = <<"all">>
    /\ annotations[2].totalSteps = 5

(***************************************************************************)
(* X results: what the x block of each pass pushes to searchResults for    *)
(* an answer of xSearchStep, on its own.                                   *)
(***************************************************************************)
MaxItems == 2

Digits == {"7", "4"}

\* The URLs tried: <host>/<user>/<segment>/<tail>, the tail a string of
\* characters.
Urls ==
    [host : {"twitter.com", "x.com", "example.com"},
     user : {"alice", ""},
     segment : {"status", "photo"},
     tail : {<<>>, <<"7">>, <<"7", "4">>, <<"a">>, <<"7", "a">>}]

\* xSearchStep answers: the results array, each item with its url.
XAnswers == SeqsUpTo([url : Urls], MaxItems)

RECURSIVE LeadingDigits(_)
\* \d+ at the start of the string: the longest run of digits.
LeadingDigits(str) ==
    IF str = <<>> \/ Head(str) \notin Digits THEN <<>>
    ELSE <<Head(str)>> \o LeadingDigits(Tail(str))

\* url.match(/(?:twitter\.com|x\.com)\/\w+\/status\/(\d+)/)
MatchesTweetUrl(url) ==
    /\ url.host \in {"twitter.com", "x.com"}
    /\ url.user # ""
    /\ url.segment = "status"
    /\ LeadingDigits(url.tail) # <<>>

\* return match ? match[1] : null, null being <<>> and a string s <<s>>.
extractTweetId(url) ==
    IF MatchesTweetUrl(url) THEN << LeadingDigits(url.tail) >> ELSE <<>>

\* xSearchResult.results.map(...).filter((tweet) => tweet !== null):
\* each result maps to no tweet or to one, and the tweets are kept in order.
processedTweets(results) ==
    Flatten([i \in DOMAIN results |->
                LET tweetId == extractTweetId(results[i].url)
                IN IF tweetId = <<>> THEN <<>>
                   ELSE << [url |-> results[i].url,
                            tweetId |-> tweetId[1]] >>])

InitTweets ==
    /\ RunIdle
    /\ FindingsIdle
    /\ SchemaIdle
    /\ ToolsIdle
    /\ xPass = "none"
    /\ xItems \in XAnswers
    /\ xEntry = <<>>

\* Initial pass, step.type === 'x', answer without error:
\* searchResults.push({ type: 'x', query, results: searchResult.results })
InitialXBlock ==
    /\ xPass = "none"
    /\ xPass' = "initial"
    /\ xEntry' = << [type |-> "x", results |-> xItems] >>
    /\ UNCHANGED <<runVars, findingsVars, schemaVars, xItems, maxVars,
                   docVars, retrieveVars, dialogVars>>

\* Deepening Pass, x block:
\* searchResults.push({ type: 'x', query, results: processedTweets })
GapXBlock ==
    /\ xPass = "none"
    /\ xPass' = "gap"
    /\ xEntry' = << [type |-> "x", results |-> processedTweets(xItems)] >>
    /\ UNCHANGED <<runVars, findingsVars, schemaVars, xItems, maxVars,
                   docVars, retrieveVars, dialogVars>>

NextTweets ==
    \/ InitialXBlock
    \/ GapXBlock

SpecTweets == InitTweets /\ [][NextTweets]_vars

\* The item carries a tweetId.
HasTweetId(item) == "tweetId" \in DOMAIN item

(***************************************************************************)
(* C28: for every x item an adapter returns, in the initial pass and in    *)
(* the deepening pass, a URL matching (twitter.com|x.com)/<user>/status/   *)
(* <digits> gives a result item carrying tweetId equal to the digit        *)
(* group, and a URL that does not match gives no result item.              *)
(***************************************************************************)
C28_TweetIdOrDropped ==
    xEntry # <<>> =>
        \A i \in DOMAIN xItems :
            LET url == xItems[i].url
                kept == {k \in DOMAIN xEntry[1].results :
                            xEntry[1].results[k].url = url}
            IN IF MatchesTweetUrl(url)
               THEN /\ kept # {}
                    /\ \A k \in kept :
                           /\ HasTweetId(xEntry[1].results[k])
                           /\ xEntry[1].results[k].tweetId
                                  = LeadingDigits(url.tail)
               ELSE kept = {}

\* The step is the return of an initial search whose answer has no error.
SearchSucceeds ==
    pc = "search_wait" /\ pc' = "search" /\ ~Last(outcomes')

(***************************************************************************)
(* C29: from the start of the initial search pass until the gap-analysis   *)
(* annotation is written, completedSteps equals the number of entries of   *)
(* the SearchResult sequence: a successful search step adds exactly one    *)
(* entry and one to completedSteps, and no other step changes either.      *)
(***************************************************************************)
C29_CompletedCountsEntries ==
    [][(~HasCompleted("gap-analysis"))' =>
           /\ completedSteps' = Len(searchResults')
           /\ IF SearchSucceeds
              THEN /\ completedSteps' = completedSteps + 1
                   /\ Len(searchResults') = Len(searchResults) + 1
              ELSE /\ completedSteps' = completedSteps
                   /\ searchResults' = searchResults]_vars

C29_Witness ==
    /\ pc = "gap_wait"
    /\ outcomes = <<FALSE, TRUE, FALSE>>
    /\ completedSteps = 2
    /\ Len(searchResults) = 2
    /\ Len(stepIds.analysisSteps) = 2

(***************************************************************************)
(* C30: across the annotations of one run that carry completedSteps, in    *)
(* write order (gap-analysis completed, final-synthesis completed, final   *)
(* research-progress), the reported completedSteps never decreases.        *)
(***************************************************************************)
C30_ReportedCompletedMonotone ==
    \A i, j \in DOMAIN annotations :
        /\ i < j
        /\ annotations[i].completedSteps # Absent
        /\ annotations[j].completedSteps # Absent
        => annotations[i].completedSteps <= annotations[j].completedSteps

C30_Witness ==
    /\ pc = "done"
    /\ CountWhere(annotations, CarriesProgress) = 3
    /\ SomeSearchFailed
    /\ Last(annotations).completedSteps = 6

IsFinalProgress(a) == a.id = "research-progress"

\* Initial search steps plus analyses of the plan, plus 1 or 2 by depth.
PlannedPlusReserve ==
    CountSearchSteps(researchPlan.search_queries)
        + Len(researchPlan.required_analyses)
        + (IF depth = "basic" THEN 1 ELSE 2)

(***************************************************************************)
(* C31: the final research-progress event reports completedSteps =         *)
(* totalSteps = (initial search steps + analyses) + 1 at depth 'basic'     *)
(* and + 2 at depth 'advanced', whatever failed, whether or not the        *)
(* deepening pass and the synthesis ran, and however many gap searches     *)
(* were executed.                                                          *)
(***************************************************************************)
C31_FinalProgressCounts ==
    \A i \in DOMAIN annotations :
        IsFinalProgress(annotations[i]) =>
            /\ annotations[i].completedSteps = PlannedPlusReserve
            /\ annotations[i].totalSteps = PlannedPlusReserve

C31_Witness ==
    /\ pc = "done"
    /\ depth = "advanced"
    /\ synthesis = Null
    /\ SomeSearchFailed
    /\ IsFinalProgress(Last(annotations))
    /\ Last(annotations).totalSteps = 6

MarksComplete(a) == a.isComplete

(***************************************************************************)
(* C32: every successful run writes exactly one annotation with            *)
(* isComplete true, it has id research-progress and is the last            *)
(* annotation written before the return; a run that aborts writes none.    *)
(***************************************************************************)
C32_OneCompletionEvent ==
    /\ pc = "done" =>
           /\ CountWhere(annotations, MarksComplete) = 1
           /\ MarksComplete(Last(annotations))
           /\ Last(annotations).id = "research-progress"
           /\ returned # <<>>
    /\ pc # "done" =>
           /\ CountWhere(annotations, MarksComplete) = 0
           /\ returned = <<>>

C32_Witness ==
    /\ pc = "done"
    /\ HasCompleted("final-synthesis")
    /\ gapFailed
    /\ MarksComplete(Last(annotations))

(***************************************************************************)
(* C33: completed analyses never increase completedSteps: the gap-analysis *)
(* completed annotation reports the number of successful initial search    *)
(* steps plus 1, whatever the number of analyses that ran, so for a plan   *)
(* with at least one analysis it is strictly below the reported            *)
(* totalSteps even when no step failed.                                    *)
(***************************************************************************)
C33_AnalysesNotCounted ==
    \A i \in DOMAIN annotations :
        IsGapAnalysisCompleted(annotations[i]) =>
            /\ annotations[i].completedSteps
                   = CountWhere(outcomes, IsSuccess) + 1
            /\ Len(researchPlan.required_analyses) >= 1 =>
                   annotations[i].completedSteps < annotations[i].totalSteps

C33_Witness ==
    /\ HasCompleted("gap-analysis")
    /\ Len(researchPlan.required_analyses) = 2
    /\ outcomes = <<FALSE, FALSE, FALSE>>
    /\ depth = "basic"

(***************************************************************************)
(* Termination.  An awaited call that has returned lets execute go on to   *)
(* its next await or to its end, and every external call is assumed to     *)
(* return: the run keeps taking steps while one is possible.               *)
(***************************************************************************)
LiveSpec == Spec /\ WF_vars(Next)

Terminated == pc \in {"done", "aborted"}

\* 1 + (search steps) + (analyses) + 1 + (gap searches) + 1
CallBound ==
    1 + Len(stepIds.searchSteps) + Len(stepIds.analysisSteps) + 1
      + GapCallCount(additionalQueries) + 1

(***************************************************************************)
(* C34: assuming every external call eventually returns, every run         *)
(* terminates: its external calls never exceed 1 + (search steps) +        *)
(* (analyses) + 1 + (gap searches) + 1, and it eventually has returned     *)
(* its payload after the final progress event or has aborted.              *)
(***************************************************************************)
C34_Terminates ==
    /\ [](Len(calls) <= CallBound)
    /\ [](pc = "done" => returned # <<>> /\ IsFinalProgress(Last(annotations)))
    /\ <>[]Terminated

C34_Witness ==
    /\ pc = "done"
    /\ Len(calls) = CallBound
    /\ Len(calls) = 13

(***************************************************************************)
(* createDocument: the data events it writes around the document handler   *)
(* of the requested kind.                                                  *)
(***************************************************************************)
MaxDeltas == 3

\* Kinds a caller may pass (kind: string) and kinds that may be registered.
DocKinds == {"text", "code", "sheet", "other"}
HandlerKinds == {"text", "code", "sheet"}

DataEvent(type, content) == [type |-> type, content |-> content]

\* The four writeData calls that open the document.
OpeningEvents(kind) ==
    << DataEvent("kind", kind), DataEvent("id", "uuid"),
       DataEvent("title", "title"), DataEvent("clear", "") >>

\* documentHandlersByArtifactKind.find((h) => h.kind === kind)
HasHandler(kind, handlers) == kind \in handlers

InitDocument ==
    /\ RunIdle
    /\ FindingsIdle
    /\ SchemaIdle
    /\ TweetsIdle
    /\ MaxResultsIdle
    /\ RetrieveIdle
    /\ DialogIdle
    /\ docKind \in DocKinds
    /\ docHandlers \in SUBSET HandlerKinds
    /\ docPc = "start"
    /\ docStream = <<>>

\* Variant: the handler is looked up before anything is written.
OpenDocument_LooksUpFirst ==
    /\ docPc = "start"
    /\ IF HasHandler(docKind, docHandlers)
       THEN /\ docStream' = docStream \o OpeningEvents(docKind)
            /\ docPc' = "handler"
       ELSE /\ docStream' = docStream
            /\ docPc' = "failed"
    /\ UNCHANGED <<runVars, findingsVars, schemaVars, tweetVars, maxVars,
                   docKind, docHandlers, retrieveVars, dialogVars>>

\* Variant: finish is written together with the opening events.
OpenDocument_FinishesEarly ==
    /\ docPc = "start"
    /\ docStream' = docStream \o OpeningEvents(docKind)
                       \o << DataEvent("finish", "") >>
    /\ docPc' = IF HasHandler(docKind, docHandlers)
                THEN "handler" ELSE "failed"
    /\ UNCHANGED <<runVars, findingsVars, schemaVars, tweetVars, maxVars,
                   docKind, docHandlers, retrieveVars, dialogVars>>

\* Entry of createDocument up to `await documentHandler.onCreateDocument`
\* or to the throw for a kind without handler.
OpenDocument ==
    /\ docPc = "start"
    /\ docStream' = docStream \o OpeningEvents(docKind)
    /\ docPc' = IF HasHandler(docKind, docHandlers)
                THEN "handler" ELSE "failed"
    /\ UNCHANGED <<runVars, findingsVars, schemaVars, tweetVars, maxVars,
                   docKind, docHandlers, retrieveVars, dialogVars>>

\* The handler writes to the dataStream it was given.
HandlerWrites ==
    /\ docPc = "handler"
    /\ Len(docStream) < Len(OpeningEvents(docKind)) + MaxDeltas
    /\ docStream' = Append(docStream, DataEvent("delta", docKind))
    /\ UNCHANGED <<runVars, findingsVars, schemaVars, tweetVars, maxVars,
                   docKind, docHandlers, docPc, retrieveVars, dialogVars>>

\* onCreateDocument resolves: finish is written and the value returned.
HandlerReturns ==
    /\ docPc = "handler"
    /\ docStream' = Append(docStream, DataEvent("finish", ""))
    /\ docPc' = "done"
    /\ UNCHANGED <<runVars, findingsVars, schemaVars, tweetVars, maxVars,
                   docKind, docHandlers, retrieveVars, dialogVars>>

\* onCreateDocument rejects: the rejection leaves createDocument.
HandlerFails ==
    /\ docPc = "handler"
    /\ docPc' = "failed"
    /\ UNCHANGED <<runVars, findingsVars, schemaVars, tweetVars, maxVars,
                   docKind, docHandlers, docStream, retrieveVars, dialogVars>>

NextDocument ==
    \/ OpenDocument
    \/ HandlerWrites
    \/ HandlerReturns
    \/ HandlerFails

SpecDocument == InitDocument /\ [][NextDocument]_vars

IsFinish(e) == e.type = "finish"
IsDelta(e) == e.type = "delta"

(***************************************************************************)
(* C35: createDocument with a kind that has a registered handler writes    *)
(* kind, id, title, clear, then what the handler writes, then finish as    *)
(* the last event; finish is written only after onCreateDocument has       *)
(* returned.                                                               *)
(***************************************************************************)
C35_DocumentEventOrder ==
    HasHandler(docKind, docHandlers) /\ docPc # "start" =>
        /\ Len(docStream) >= 4
        /\ SubSeq(docStream, 1, 4) = OpeningEvents(docKind)
        /\ \A i \in 5..Len(docStream) :
               IF docPc = "done" /\ i = Len(docStream)
               THEN IsFinish(docStream[i])
               ELSE IsDelta(docStream[i])
        /\ docPc = "done" => Len(docStream) >= 5

C35_Witness ==
    /\ docPc = "done"
    /\ Len(docStream) = 7
    /\ IsFinish(docStream[7])
    /\ IsDelta(docStream[5])

(***************************************************************************)
(* C36: createDocument with a kind that has no registered handler fails    *)
(* with an error after the kind, id, title and clear events have been      *)
(* written, and no finish event is ever written; no finish event is        *)
(* written either when the handler's onCreateDocument fails.               *)
(***************************************************************************)
C36_NoFinishOnFailure ==
    /\ ~HasHandler(docKind, docHandlers) /\ docPc # "start" =>
           /\ docPc = "failed"
           /\ docStream = OpeningEvents(docKind)
    /\ docPc = "failed" => CountWhere(docStream, IsFinish) = 0

C36_Witness ==
    /\ docPc = "failed"
    /\ docKind = "code"
    /\ docHandlers = {"text", "sheet"}
    /\ Len(docStream) = 4

(***************************************************************************)
(* retrieve: one scrape of the URL, an extraction when the scrape lacks a  *)
(* field, and the value returned.  A missing or empty string is "".        *)
(***************************************************************************)
\* Answers of app.scrapeUrl(url).
ScrapeAnswers ==
    [success : BOOLEAN, hasMetadata : BOOLEAN, title : {"", "T"},
     description : {"", "D"}, markdown : {"", "M"}]

\* Answers of app.extract([url], ...): data is <<>> or <<fields>>.
ExtractAnswers ==
    [success : BOOLEAN,
     data : {<<>>} \cup
            {<<d>> : d \in [title : {"", "XT"}, description : {"", "XD"},
                            content : {"", "XC"}]}]

\* a || b on strings
OrElse(a, b) == IF a # "" THEN a ELSE b

\* content.error: set by a scrape that reports failure.
ErrorOf(content) == IF content.success THEN "undefined" ELSE "scrape failed"

\* if (!content.success || !content.metadata)
ScrapeUnusable(content) == ~content.success \/ ~content.hasMetadata

\* if (!title || !description || !extractedContent)
NeedsExtract(content) ==
    content.title = "" \/ content.description = "" \/ content.markdown = ""

ErrorItemResult(content) == [results |-> << [error |-> ErrorOf(content)] >>]

FailedResult == [error |-> "Failed to retrieve content"]

\* The returned page for the scraped fields and the extraction fallbacks.
PageResult(content, fallback) ==
    [results |->
        << [title |-> OrElse(OrElse(content.title, fallback.title),
                             "Untitled"),
            content |-> OrElse(content.markdown, fallback.content),
            description |-> OrElse(content.description,
                                   fallback.description)] >>]

NoFallback == [title |-> "", description |-> "", content |-> ""]

\* if (extractResult.success && extractResult.data) { ... || data.<field> }
FallbackOf(extractResult) ==
    IF extractResult.success /\ extractResult.data # <<>>
    THEN extractResult.data[1] ELSE NoFallback

InitRetrieve ==
    /\ RunIdle
    /\ FindingsIdle
    /\ SchemaIdle
    /\ TweetsIdle
    /\ MaxResultsIdle
    /\ DocumentIdle
    /\ DialogIdle
    /\ rtPc = "start"
    /\ rtScrape = <<>>
    /\ rtExtract = <<>>
    /\ rtCalls = <<>>
    /\ rtResult = <<>>

\* execute up to `await app.scrapeUrl(url)`.
ScrapeCall ==
    /\ rtPc = "start"
    /\ rtCalls' = Append(rtCalls, "scrapeUrl")
    /\ rtPc' = "scraping"
    /\ UNCHANGED <<runVars, findingsVars, schemaVars, tweetVars, maxVars,
                   docVars, rtScrape, rtExtract, rtResult, dialogVars>>

\* scrapeUrl resolves: the early return, the call of extract, or the page.
ScrapeReturns ==
    /\ rtPc = "scraping"
    /\ \E content \in ScrapeAnswers :
        /\ rtScrape' = <<content>>
        /\ IF ScrapeUnusable(content)
           THEN /\ rtResult' = << ErrorItemResult(content) >>
                /\ rtPc' = "returned"
                /\ UNCHANGED rtCalls
           ELSE IF NeedsExtract(content)
           THEN /\ rtCalls' = Append(rtCalls, "extract")
                /\ rtPc' = "extracting"
                /\ UNCHANGED rtResult
           ELSE /\ rtResult' = << PageResult(content, NoFallback) >>
                /\ rtPc' = "returned"
                /\ UNCHANGED rtCalls
    /\ UNCHANGED <<runVars, findingsVars, schemaVars, tweetVars, maxVars,
                   docVars, rtExtract, dialogVars>>

\* catch (error) { ...; return { error: 'Failed to retrieve content' } }
Caught ==
    /\ rtResult' = << FailedResult >>
    /\ rtPc' = "returned"
    /\ UNCHANGED <<runVars, findingsVars, schemaVars, tweetVars, maxVars,
                   docVars, rtScrape, rtExtract, rtCalls, dialogVars>>

\* scrapeUrl rejects.
ScrapeThrows ==
    /\ rtPc = "scraping"
    /\ Caught

\* extract resolves.
ExtractReturns ==
    /\ rtPc = "extracting"
    /\ \E extractResult \in ExtractAnswers :
        /\ rtExtract' = <<extractResult>>
        /\ rtResult' = << PageResult(rtScrape[1], FallbackOf(extractResult)) >>
    /\ rtPc' = "returned"
    /\ UNCHANGED <<runVars, findingsVars, schemaVars, tweetVars, maxVars,
                   docVars, rtScrape, rtCalls, dialogVars>>

\* Variant: the extraction is made outside the try block.
ExtractThrows_Uncaught ==
    /\ rtPc = "extracting"
    /\ rtPc' = "thrown"
    /\ UNCHANGED <<runVars, findingsVars, schemaVars, tweetVars, maxVars,
                   docVars, rtScrape, rtExtract, rtCalls, rtResult,
                   dialogVars>>

\* extract rejects.
ExtractThrows ==
    /\ rtPc = "extracting"
    /\ Caught

NextRetrieve ==
    \/ ScrapeCall
    \/ ScrapeReturns
    \/ ScrapeThrows
    \/ ExtractReturns
    \/ ExtractThrows

SpecRetrieve == InitRetrieve /\ [][NextRetrieve]_vars

ExtractCalled == \E i \in DOMAIN rtCalls : rtCalls[i] = "extract"

MaxSubmits == 5

\* What the POST to /api/keys can come to: a response with ok true or
\* false, or a rejected fetch.
PostOutcomes == {"ok", "not ok", "failed"}

InitDialog ==
    /\ RunIdle
    /\ FindingsIdle
    /\ SchemaIdle
    /\ TweetsIdle
    /\ MaxResultsIdle
    /\ DocumentIdle
    /\ RetrieveIdle
    /\ dlgPc = "idle"
    /\ loading = FALSE
    /\ responses = <<>>
    /\ callbacks = <<>>

\* handleApiKeySubmit up to `await fetch(...)`; the button is enabled.
Submit ==
    /\ dlgPc = "idle"
    /\ ~loading
    /\ Len(responses) < MaxSubmits
    /\ loading' = TRUE
    /\ dlgPc' = "fetching"
    /\ UNCHANGED <<runVars, findingsVars, schemaVars, tweetVars, maxVars,
                   docVars, retrieveVars, responses, callbacks>>

\* fetch resolves with res.
FetchResolves ==
    /\ dlgPc = "fetching"
    /\ \E ok \in BOOLEAN :
        /\ responses' = Append(responses, IF ok THEN "ok" ELSE "not ok")
        /\ callbacks' = IF ok
                        THEN callbacks \o <<"onClose(false)", "onSuccess()">>
                        ELSE callbacks
    /\ loading' = FALSE
    /\ dlgPc' = "idle"
    /\ UNCHANGED <<runVars, findingsVars, schemaVars, tweetVars, maxVars,
                   docVars, retrieveVars>>

\* fetch rejects: the rejection leaves handleApiKeySubmit at the await.
FetchRejects ==
    /\ dlgPc = "fetching"
    /\ responses' = Append(responses, "failed")
    /\ dlgPc' = "idle"
    /\ UNCHANGED <<runVars, findingsVars, schemaVars, tweetVars, maxVars,
                   docVars, retrieveVars, loading, callbacks>>

NextDialog ==
    \/ Submit
    \/ FetchResolves
    \/ FetchRejects

SpecDialog == InitDialog /\ [][NextDialog]_vars

\* The callbacks due for the outcomes so far.
RECURSIVE CallbacksFor(_)
CallbacksFor(rs) ==
    IF rs = <<>> THEN <<>>
    ELSE (IF Head(rs) = "ok" THEN <<"onClose(false)", "onSuccess()">>
          ELSE <<>>) \o CallbacksFor(Tail(rs))

(***************************************************************************)
(* C38: after every completed submission of the API-key dialog, whether    *)
(* the POST answered ok, answered not ok, or failed, loading is back to    *)
(* false; and onClose(false) followed by onSuccess() are called exactly    *)
(* when the response was ok.                                               *)
(***************************************************************************)
C38_LoadingReset ==
    dlgPc = "idle" =>
        /\ loading = FALSE
        /\ callbacks = CallbacksFor(responses)

(***************************************************************************)
(* maxResults of the initial pass: the limit each adapter call receives    *)
(* for the priority of its query.                                          *)
(***************************************************************************)
MaxPrioQueries == 2

\* Queries of plans whose priorities are whole numbers within the schema.
PrioQueries == [source : Sources, priority : SchemaMinRank..SchemaMaxRank]

MathMin(a, b) == IF a <= b THEN a ELSE b

\* Variant: every adapter is given the priority itself.
MaxResultsOf_PriorityForAll(type, priority) == priority

\* web:      Math.min(6 - step.query.priority, 10)
\* academic: Math.min(6 - step.query.priority, 5)
\* x:        step.query.priority
MaxResultsOf(type, priority) ==
    CASE type = "web" -> MathMin(6 - priority, 10)
      [] type = "academic" -> MathMin(6 - priority, 5)
      [] type = "x" -> priority

\* stepIds.searchSteps of the plan with these queries.
StepsOfQueries(queries) ==
    generateStepIds(PlanOf([search_queries |-> queries,
                            required_analyses |-> <<>>])).searchSteps

InitMaxResults ==
    /\ RunIdle
    /\ FindingsIdle
    /\ SchemaIdle
    /\ TweetsIdle
    /\ DocumentIdle
    /\ RetrieveIdle
    /\ DialogIdle
    /\ mrPlan \in SeqsUpTo(PrioQueries, MaxPrioQueries)
    /\ mrPos = 1
    /\ mrCalls = <<>>

\* One turn of `for (const step of stepIds.searchSteps)`: the adapter call.
IssueSearch ==
    /\ mrPos <= Len(StepsOfQueries(mrPlan))
    /\ LET step == StepsOfQueries(mrPlan)[mrPos]
           priority == mrPlan[step.query + 1].priority
       IN mrCalls' = Append(mrCalls,
              [kind |-> AdapterOf(step.type), type |-> step.type,
               priority |-> priority,
               maxResults |-> MaxResultsOf(step.type, priority)])
    /\ mrPos' = mrPos + 1
    /\ UNCHANGED <<runVars, findingsVars, schemaVars, tweetVars, mrPlan,
                   docVars, retrieveVars, dialogVars>>

NextMaxResults == IssueSearch

SpecMaxResults == InitMaxResults /\ [][NextMaxResults]_vars

(***************************************************************************)
(* C39: for every plan whose priorities are integers in 1..5, every        *)
(* initial-pass adapter call receives a maxResults between 1 and 5:        *)
(* 6 - priority for web and academic steps, the caps of 10 and 5 never     *)
(* binding, and the priority itself for x steps.                           *)
(***************************************************************************)
C39_MaxResultsRange ==
    \A i \in DOMAIN mrCalls :
        /\ mrCalls[i].maxResults \in 1..5
        /\ mrCalls[i].kind \in {"webSearchStep", "academicSearchStep"} =>
               mrCalls[i].maxResults = 6 - mrCalls[i].priority
        /\ mrCalls[i].kind = "xSearchStep" =>
               mrCalls[i].maxResults = mrCalls[i].priority

C39_Witness ==
    /\ Len(mrCalls) = 4
    /\ mrCalls[1].kind = "webSearchStep"
    /\ mrCalls[1].priority = 1
    /\ mrCalls[1].maxResults = 5
    /\ mrCalls[3].kind = "xSearchStep"
    /\ mrCalls[4].kind = "academicSearchStep"
    /\ mrCalls[4].priority = 5

====
